---------------------------- MODULE Spec2Model ----------------------------
(***************************************************************************)
(* A model of SceneManager (OpenGL_FinalScene/Source/SceneManager.cpp):    *)
(* the fixed-capacity texture registry, the material list and the shader   *)
(* sink they feed.                                                         *)
(*                                                                         *)
(* Collaborators are modelled by what the code relies on:                  *)
(*   - stbi_load either fails or yields an image of 1..4 channels;         *)
(*   - glGenTextures yields a name never handed out before (glNextName);   *)
(*   - glActiveTexture / glBindTexture keep one 2D binding per unit;       *)
(*   - the shader manager stores the last value set for each uniform.      *)
(* float values are written as integers in thousandths (0.2f is 200).      *)
(***************************************************************************)
EXTENDS Integers, Sequences, FiniteSets, TLC

VARIABLES
    m_pShaderManager,   \* "sink" or "NULL"
    m_textureIDs,       \* the array m_textureIDs[16] of [tag, ID]
    m_adjacent,         \* the memory cells that follow m_textureIDs[15]
    m_loadedTextures,   \* number of occupied slots
    m_objectMaterials,  \* std::vector<OBJECT_MATERIAL>
    glNextName,         \* next texture name glGenTextures hands out
    glActiveUnit,       \* the active texture unit
    glBound,            \* unit -> texture name bound to GL_TEXTURE_2D (0: none)
    glDeleted,          \* texture names released, in order
    stbLiveImages,      \* decoded image buffers not yet freed
    oobWrites,          \* indices outside 0..15 that a registration wrote to
    uniforms,           \* the sink: uniform name -> last value set
    lastCalls,          \* the sink calls made by the last operation
    lastOp,             \* the last operation executed
    lastIn,             \* its arguments
    lastRet,            \* its return value
    lastOut,            \* its OBJECT_MATERIAL& out-parameter on return
    alive,              \* "alive", "destroyed" (destructor ran) or "crashed"
    env,                \* what the caller may pass: tags and number of loads
    m_basicMeshes,      \* the mesh kinds m_basicMeshes has loaded
    frameLog            \* the draws of the last RenderScene, in order

vars == << m_pShaderManager, m_textureIDs, m_adjacent, m_loadedTextures,
           m_objectMaterials, glNextName, glActiveUnit, glBound, glDeleted,
           stbLiveImages, oobWrites, uniforms, lastCalls, lastOp, lastIn,
           lastRet, lastOut, alive, env, m_basicMeshes, frameLog >>

sceneVars == << m_basicMeshes, frameLog >>

-----------------------------------------------------------------------------
(* Program constants and model bounds *)

Capacity == 16

NotFound == -1

\* memory cells modelled past the end of m_textureIDs
MaxOverrun == 1

\* decoded images per run when three tags are in play
MaxLoads == 4

\* length of the material list
MaxMaterials == 3

Slots == 0 .. (Capacity - 1)

AdjacentCells == Capacity .. (Capacity + MaxOverrun - 1)

Units == 0 .. (Capacity + MaxOverrun - 1)

EmptyTag == "/0"

TextureTags == {"bottle-cork", "table", "background"}

QueryTags == TextureTags \cup {EmptyTag, "love-potion"}

Channels == 1 .. 4

-----------------------------------------------------------------------------
(* The texture registry *)

NoArgs == [tag |-> "", decoded |-> FALSE, colorChannels |-> 0]

NoMaterial ==
    [tag |-> "", diffuseColor |-> <<0, 0, 0>>, specularColor |-> <<0, 0, 0>>,
     shininess |-> 0]

\* the uniforms a draw reads
DrawUniformNames ==
    {"model", "objectColor", "objectTexture", "bUseTexture", "UVscale",
     "material.diffuseColor", "material.specularColor", "material.shininess"}

\* the calls SetupSceneLights makes on the shader manager, in order;
\* setBoolValue(true) stores 1
LightCalls ==
    << <<"bUseLighting", 1>>,
       <<"directionalLight.direction", <<-50, -300, -100>>>>,
       <<"directionalLight.ambient", <<50, 50, 50>>>>,
       <<"directionalLight.diffuse", <<600, 600, 600>>>>,
       <<"directionalLight.specular", <<0, 0, 0>>>>,
       <<"directionalLight.bActive", 1>>,
       <<"pointLights[0].position", <<-4000, 8000, 0>>>>,
       <<"pointLights[0].ambient", <<50, 50, 50>>>>,
       <<"pointLights[0].diffuse", <<300, 300, 300>>>>,
       <<"pointLights[0].specular", <<100, 100, 100>>>>,
       <<"pointLights[0].bActive", 1>>,
       <<"pointLights[1].position", <<4000, 8000, 0>>>>,
       <<"pointLights[1].ambient", <<50, 50, 50>>>>,
       <<"pointLights[1].diffuse", <<300, 300, 300>>>>,
       <<"pointLights[1].specular", <<100, 100, 100>>>>,
       <<"pointLights[1].bActive", 1>>,
       <<"pointLights[2].position", <<3800, 5500, 4000>>>>,
       <<"pointLights[2].ambient", <<50, 50, 50>>>>,
       <<"pointLights[2].diffuse", <<200, 200, 200>>>>,
       <<"pointLights[2].specular", <<800, 800, 800>>>>,
       <<"pointLights[2].bActive", 1>>,
       <<"pointLights[3].position", <<5000, 6500, 6000>>>>,
       <<"pointLights[3].ambient", <<50, 50, 50>>>>,
       <<"pointLights[3].diffuse", <<200, 200, 200>>>>,
       <<"pointLights[3].specular", <<800, 800, 800>>>>,
       <<"pointLights[3].bActive", 1>> >>

UniformNames ==
    DrawUniformNames \cup {LightCalls[i][1] : i \in 1 .. Len(LightCalls)}

ZeroMatrix ==
    << <<0, 0, 0, 0>>, <<0, 0, 0, 0>>, <<0, 0, 0, 0>>, <<0, 0, 0, 0>> >>

\* A uniform nothing has set yet holds zero, of its own type.
UniformDefault(n) ==
    CASE n = "model" -> ZeroMatrix
      [] n = "objectColor" -> <<0, 0, 0, 0>>
      [] n = "UVscale" -> <<0, 0>>
      [] n \in {"objectTexture", "bUseTexture", "bUseLighting",
                "material.shininess", "directionalLight.bActive",
                "pointLights[0].bActive", "pointLights[1].bActive",
                "pointLights[2].bActive", "pointLights[3].bActive"} -> 0
      [] OTHER -> <<0, 0, 0>>

\* The state the constructor leaves, for the shader manager it is given.
Constructor(pShaderManager) ==
    /\ m_pShaderManager = pShaderManager
    /\ m_textureIDs = [i \in Slots |-> [tag |-> EmptyTag, ID |-> -1]]
    /\ m_loadedTextures = 0
    /\ m_objectMaterials = << >>
    /\ m_adjacent = [i \in AdjacentCells |-> [tag |-> "", ID |-> 0]]
    /\ glNextName = 1
    /\ glActiveUnit = 0
    /\ glBound = [u \in Units |-> 0]
    /\ glDeleted = << >>
    /\ stbLiveImages = 0
    /\ oobWrites = {}
    /\ uniforms = [n \in UniformNames |-> UniformDefault(n)]
    /\ m_basicMeshes = {}
    /\ frameLog = << >>
    /\ lastCalls = << >>
    /\ lastOp = "SceneManager"
    /\ lastIn = NoArgs
    /\ lastRet = FALSE
    /\ lastOut = NoMaterial
    /\ alive = "alive"

\* m_textureIDs[i] as the code reads it: past index 15 it reads the memory
\* that follows the array.
Entry(i) == IF i \in Slots THEN m_textureIDs[i] ELSE m_adjacent[i]

RECURSIVE FindTextureIDLoop(_, _, _, _)
FindTextureIDLoop(tag, index, bFound, textureID) ==
    IF (index < m_loadedTextures) /\ (bFound = FALSE)
    THEN IF Entry(index).tag = tag
         THEN FindTextureIDLoop(tag, index, TRUE, Entry(index).ID)
         ELSE FindTextureIDLoop(tag, index + 1, bFound, textureID)
    ELSE textureID

FindTextureID(tag) == FindTextureIDLoop(tag, 0, FALSE, -1)

RECURSIVE FindTextureSlotLoop(_, _, _, _, _)
FindTextureSlotLoop(tag, index, bFound, textureSlot, limit) ==
    IF (index < limit) /\ (bFound = FALSE)
    THEN IF Entry(index).tag = tag
         THEN FindTextureSlotLoop(tag, index, TRUE, index, limit)
         ELSE FindTextureSlotLoop(tag, index + 1, bFound, textureSlot, limit)
    ELSE textureSlot

\* a lookup that scans the whole array instead of the occupied slots
FindTextureSlot_AllSlots(tag) ==
    FindTextureSlotLoop(tag, 0, FALSE, -1, Capacity)

FindTextureSlot(tag) ==
    FindTextureSlotLoop(tag, 0, FALSE, -1, m_loadedTextures)

\* a channel test that lets every decoded image through
ChannelsSupported_Any(colorChannels) == colorChannels >= 1

ChannelsSupported(colorChannels) == colorChannels = 3 \/ colorChannels = 4

\* a registration that puts the new entry in front of the others
Register_Prepends(textureID, tag) ==
    IF m_loadedTextures + 1 \in Slots
    THEN /\ m_textureIDs' =
                [i \in Slots |->
                    IF i = 0
                    THEN [tag |-> tag, ID |-> textureID]
                    ELSE m_textureIDs[i - 1]]
         /\ m_loadedTextures' = m_loadedTextures + 1
         /\ lastRet' = TRUE
         /\ UNCHANGED << m_adjacent, oobWrites, alive >>
    ELSE /\ alive' = "crashed"
         /\ lastRet' = FALSE
         /\ UNCHANGED << m_textureIDs, m_adjacent, m_loadedTextures,
                         oobWrites >>

\* m_textureIDs[m_loadedTextures] = {textureID, tag}; m_loadedTextures++.
\* There is no bounds check: at m_loadedTextures >= 16 the write goes past the
\* end of the array, which is undefined: it lands in the memory that follows
\* the array, or the process dies at the write.
Register(textureID, tag) ==
    IF m_loadedTextures \in Slots
    THEN /\ m_textureIDs' =
                [m_textureIDs EXCEPT ![m_loadedTextures] =
                    [tag |-> tag, ID |-> textureID]]
         /\ m_loadedTextures' = m_loadedTextures + 1
         /\ lastRet' = TRUE
         /\ UNCHANGED << m_adjacent, oobWrites, alive >>
    ELSE /\ m_loadedTextures \in AdjacentCells
         /\ \/ /\ m_adjacent' =
                      [m_adjacent EXCEPT ![m_loadedTextures] =
                          [tag |-> tag, ID |-> textureID]]
               /\ oobWrites' = oobWrites \cup {m_loadedTextures}
               /\ m_loadedTextures' = m_loadedTextures + 1
               /\ lastRet' = TRUE
               /\ UNCHANGED << m_textureIDs, alive >>
            \/ /\ alive' = "crashed"
               /\ oobWrites' = oobWrites \cup {m_loadedTextures}
               /\ lastRet' = FALSE
               /\ UNCHANGED << m_textureIDs, m_adjacent, m_loadedTextures >>

CreateGLTexture(decoded, colorChannels, tag) ==
    /\ alive = "alive"
    /\ UNCHANGED sceneVars
    /\ lastOp' = "CreateGLTexture"
    /\ lastIn' = [tag |-> tag, decoded |-> decoded,
                  colorChannels |-> colorChannels]
    /\ UNCHANGED << m_pShaderManager, m_objectMaterials, glActiveUnit,
                    glDeleted, uniforms, lastCalls, lastOut, env >>
    /\ IF ~decoded
       THEN \* stbi_load returned NULL
            /\ lastRet' = FALSE
            /\ UNCHANGED << m_textureIDs, m_adjacent, m_loadedTextures,
                            glNextName, glBound, stbLiveImages, oobWrites,
                            alive >>
       ELSE /\ glNextName <= env.genLimit
            /\ glNextName' = glNextName + 1
            /\ IF ~ChannelsSupported(colorChannels)
               THEN \* return false with the image and the texture still held
                    /\ stbLiveImages < env.leakLimit
                    /\ glBound' = [glBound EXCEPT ![glActiveUnit] = glNextName]
                    /\ stbLiveImages' = stbLiveImages + 1
                    /\ lastRet' = FALSE
                    /\ UNCHANGED << m_textureIDs, m_adjacent,
                                    m_loadedTextures, oobWrites, alive >>
               ELSE /\ glBound' = [glBound EXCEPT ![glActiveUnit] = 0]
                    /\ UNCHANGED stbLiveImages
                    /\ Register(glNextName, tag)

\* the bindings after the loop of BindGLTextures, were every unit bound on
\* the unit that is active on entry
BoundAfterBind_NoActiveTexture ==
    IF m_loadedTextures = 0
    THEN glBound
    ELSE [glBound EXCEPT ![glActiveUnit] = Entry(m_loadedTextures - 1).ID]

\* the bindings after the loop of BindGLTextures
BoundAfterBind ==
    [u \in Units |-> IF u < m_loadedTextures THEN Entry(u).ID ELSE glBound[u]]

\* a BindGLTextures that generates a fresh name into every occupied slot
BindGLTextures_Regenerates ==
    /\ alive = "alive"
    /\ m_loadedTextures > 0
    /\ lastOp' = "BindGLTextures"
    /\ lastIn' = NoArgs
    /\ lastRet' = FALSE
    /\ m_textureIDs' =
          [i \in Slots |->
              IF i < m_loadedTextures
              THEN [m_textureIDs[i] EXCEPT !.ID = glNextName + i]
              ELSE m_textureIDs[i]]
    /\ glNextName' = glNextName + m_loadedTextures
    /\ UNCHANGED << m_pShaderManager, m_adjacent, m_loadedTextures,
                    m_objectMaterials, glActiveUnit, glBound, glDeleted,
                    stbLiveImages, oobWrites, uniforms, lastCalls, lastOut,
                    alive, env, m_basicMeshes, frameLog >>

BindGLTextures ==
    /\ alive = "alive"
    /\ UNCHANGED sceneVars
    /\ lastOp' = "BindGLTextures"
    /\ lastIn' = NoArgs
    /\ lastRet' = FALSE
    /\ glBound' = BoundAfterBind
    /\ glActiveUnit' = IF m_loadedTextures = 0 THEN glActiveUnit
                       ELSE m_loadedTextures - 1
    /\ UNCHANGED << m_pShaderManager, m_textureIDs, m_adjacent,
                    m_loadedTextures, m_objectMaterials, glNextName,
                    glDeleted, stbLiveImages, oobWrites, uniforms, lastCalls,
                    lastOut, alive, env >>

\* DestroyGLTextures: glGenTextures(1, &m_textureIDs[i].ID) for every
\* occupied slot; no texture name is deleted.
DestroyGLTextures ==
    /\ m_textureIDs' =
          [i \in Slots |->
              IF i < m_loadedTextures
              THEN [m_textureIDs[i] EXCEPT !.ID = glNextName + i]
              ELSE m_textureIDs[i]]
    /\ m_adjacent' =
          [i \in AdjacentCells |->
              IF i < m_loadedTextures
              THEN [m_adjacent[i] EXCEPT !.ID = glNextName + i]
              ELSE m_adjacent[i]]
    /\ glNextName' = glNextName + m_loadedTextures
    /\ UNCHANGED << glDeleted, m_loadedTextures >>

Destructor ==
    /\ alive = "alive"
    /\ lastOp' = "~SceneManager"
    /\ lastIn' = NoArgs
    /\ lastRet' = FALSE
    /\ m_pShaderManager' = "NULL"
    /\ DestroyGLTextures
    /\ alive' = "destroyed"
    /\ m_basicMeshes' = {}
    /\ UNCHANGED frameLog
    /\ UNCHANGED << m_objectMaterials, glActiveUnit, glBound, stbLiveImages,
                    oobWrites, uniforms, lastCalls, lastOut, env >>

-----------------------------------------------------------------------------
(* The material list *)

\* OBJECT_MATERIAL values a caller may define: the scene's wood and glass,
\* and a second definition of "wood" with other values.
WoodMaterial ==
    [tag |-> "wood", diffuseColor |-> <<200, 200, 300>>,
     specularColor |-> <<0, 0, 0>>, shininess |-> 100]

GlassMaterial ==
    [tag |-> "glass", diffuseColor |-> <<478, 478, 478>>,
     specularColor |-> <<1000, 1000, 1000>>, shininess |-> 98000]

OtherWoodMaterial ==
    [tag |-> "wood", diffuseColor |-> <<435, 224, 102>>,
     specularColor |-> <<100, 100, 100>>, shininess |-> 500]

MaterialPool == {WoodMaterial, GlassMaterial, OtherWoodMaterial}

MaterialTags == {"wood", "glass", "wall"}

\* What a default-constructed OBJECT_MATERIAL local may hold: its colours and
\* shininess are not initialised, so they are zero or whatever the stack held.
UninitMaterials ==
    { NoMaterial,
      [tag |-> "", diffuseColor |-> <<-7, -7, -7>>,
       specularColor |-> <<-7, -7, -7>>, shininess |-> -7] }

\* m_objectMaterials.push_back(material)
DefineMaterial(material) ==
    /\ alive = "alive"
    /\ UNCHANGED sceneVars
    /\ Len(m_objectMaterials) < MaxMaterials
    /\ m_objectMaterials' = Append(m_objectMaterials, material)
    /\ lastOp' = "push_back"
    /\ lastIn' = [NoArgs EXCEPT !.tag = material.tag]
    /\ lastRet' = FALSE
    /\ lastOut' = material
    /\ lastCalls' = << >>
    /\ UNCHANGED << m_pShaderManager, m_textureIDs, m_adjacent,
                    m_loadedTextures, glNextName, glActiveUnit, glBound,
                    glDeleted, stbLiveImages, oobWrites, uniforms, alive,
                    env >>

\* the scan of FindMaterial, were it to run on past a match
RECURSIVE FindMaterialLoop_LastMatch(_, _, _, _)
FindMaterialLoop_LastMatch(tag, index, bFound, material) ==
    IF index < Len(m_objectMaterials)
    THEN IF m_objectMaterials[index + 1].tag = tag
         THEN FindMaterialLoop_LastMatch(tag, index + 1, TRUE,
                 [material EXCEPT
                     !.diffuseColor = m_objectMaterials[index + 1].diffuseColor,
                     !.specularColor = m_objectMaterials[index + 1].specularColor,
                     !.shininess = m_objectMaterials[index + 1].shininess])
         ELSE FindMaterialLoop_LastMatch(tag, index + 1, bFound, material)
    ELSE [bFound |-> bFound, material |-> material]

\* the while loop of FindMaterial; index counts from 0 as in the code
RECURSIVE FindMaterialLoop(_, _, _, _)
FindMaterialLoop(tag, index, bFound, material) ==
    IF (index < Len(m_objectMaterials)) /\ (bFound = FALSE)
    THEN IF m_objectMaterials[index + 1].tag = tag
         THEN FindMaterialLoop(tag, index, TRUE,
                 [material EXCEPT
                     !.diffuseColor = m_objectMaterials[index + 1].diffuseColor,
                     !.specularColor = m_objectMaterials[index + 1].specularColor,
                     !.shininess = m_objectMaterials[index + 1].shininess])
         ELSE FindMaterialLoop(tag, index + 1, bFound, material)
    ELSE [bFound |-> bFound, material |-> material]

\* FindMaterial(tag, material): the value returned and material on return.
\* The value returned after the loop is true, not bFound.
FindMaterial(tag, material) ==
    IF Len(m_objectMaterials) = 0
    THEN [ret |-> FALSE, material |-> material]
    ELSE [ret |-> TRUE,
          material |-> FindMaterialLoop(tag, 0, FALSE, material).material]

\* a call of FindMaterial with the caller's material as it stands
FindMaterialCall(tag, material) ==
    /\ alive = "alive"
    /\ UNCHANGED sceneVars
    /\ lastOp' = "FindMaterial"
    /\ lastIn' = [NoArgs EXCEPT !.tag = tag]
    /\ lastRet' = FindMaterial(tag, material).ret
    /\ lastOut' = FindMaterial(tag, material).material
    /\ lastCalls' = << >>
    /\ UNCHANGED << m_pShaderManager, m_textureIDs, m_adjacent,
                    m_loadedTextures, m_objectMaterials, glNextName,
                    glActiveUnit, glBound, glDeleted, stbLiveImages,
                    oobWrites, uniforms, alive, env >>

\* the three calls SetShaderMaterial makes on the shader manager
MaterialCalls(material) ==
    << <<"material.diffuseColor", material.diffuseColor>>,
       <<"material.specularColor", material.specularColor>>,
       <<"material.shininess", material.shininess>> >>

\* SetShaderMaterial(materialTag).  The local material is not initialised
\* before FindMaterial is called, and m_pShaderManager is not tested: with a
\* null shader manager the first setVec3Value is a call through a null
\* pointer, at which the process dies.
SetShaderMaterial(materialTag) ==
    /\ alive = "alive"
    /\ UNCHANGED sceneVars
    /\ lastOp' = "SetShaderMaterial"
    /\ lastIn' = [NoArgs EXCEPT !.tag = materialTag]
    /\ UNCHANGED << m_pShaderManager, m_textureIDs, m_adjacent,
                    m_loadedTextures, m_objectMaterials, glNextName,
                    glActiveUnit, glBound, glDeleted, stbLiveImages,
                    oobWrites, env >>
    /\ IF Len(m_objectMaterials) > 0
       THEN \E material \in UninitMaterials :
               LET found == FindMaterial(materialTag, material)
               IN  /\ lastRet' = found.ret
                   /\ lastOut' = found.material
                   /\ IF found.ret = TRUE
                      THEN IF m_pShaderManager = "NULL"
                           THEN /\ alive' = "crashed"
                                /\ lastCalls' = << >>
                                /\ UNCHANGED uniforms
                           ELSE /\ lastCalls' = MaterialCalls(found.material)
                                /\ uniforms' =
                                      [uniforms EXCEPT
                                          !["material.diffuseColor"] =
                                              found.material.diffuseColor,
                                          !["material.specularColor"] =
                                              found.material.specularColor,
                                          !["material.shininess"] =
                                              found.material.shininess]
                                /\ UNCHANGED alive
                      ELSE /\ lastCalls' = << >>
                           /\ UNCHANGED << uniforms, alive >>
       ELSE /\ lastRet' = FALSE
            /\ lastOut' = NoMaterial
            /\ lastCalls' = << >>
            /\ UNCHANGED << uniforms, alive >>

-----------------------------------------------------------------------------
(* The transform composer.  Matrices are 4x4, a tuple of rows, entries in  *)
(* thousandths; a product of two entries is brought back to thousandths by *)
(* \div 1000, which is exact whenever every angle is a multiple of 90.     *)
(* Angles are in whole degrees.                                            *)

\* the angles the scene and the callers of this model use
Angles == {-95, -94, -92, -91, -90, -5, 0, 89, 90, 93, 180, 270}

\* cos and sin of glm::radians(degrees), in thousandths
CosThousandths(degrees) ==
    CASE degrees = -95 -> -87
      [] degrees = -94 -> -70
      [] degrees = -92 -> -35
      [] degrees = -91 -> -17
      [] degrees = -90 -> 0
      [] degrees = -5 -> 996
      [] degrees = 0 -> 1000
      [] degrees = 89 -> 17
      [] degrees = 90 -> 0
      [] degrees = 93 -> -52
      [] degrees = 180 -> -1000
      [] degrees = 270 -> 0

SinThousandths(degrees) ==
    CASE degrees = -95 -> -996
      [] degrees = -94 -> -998
      [] degrees = -92 -> -999
      [] degrees = -91 -> -1000
      [] degrees = -90 -> -1000
      [] degrees = -5 -> -87
      [] degrees = 0 -> 0
      [] degrees = 89 -> 1000
      [] degrees = 90 -> 1000
      [] degrees = 93 -> 999
      [] degrees = 180 -> 0
      [] degrees = 270 -> -1000

\* entry (i, j) of the product A * B
MatMulEntry(A, B, i, j) ==
    (A[i][1] * B[1][j] + A[i][2] * B[2][j]
     + A[i][3] * B[3][j] + A[i][4] * B[4][j]) \div 1000

MatMulRow(A, B, i) ==
    << MatMulEntry(A, B, i, 1), MatMulEntry(A, B, i, 2),
       MatMulEntry(A, B, i, 3), MatMulEntry(A, B, i, 4) >>

MatMul(A, B) ==
    << MatMulRow(A, B, 1), MatMulRow(A, B, 2),
       MatMulRow(A, B, 3), MatMulRow(A, B, 4) >>

\* glm::scale(scaleXYZ)
ScaleMatrix(scaleXYZ) ==
    << <<scaleXYZ[1], 0, 0, 0>>,
       <<0, scaleXYZ[2], 0, 0>>,
       <<0, 0, scaleXYZ[3], 0>>,
       <<0, 0, 0, 1000>> >>

\* glm::rotate(glm::radians(degrees), glm::vec3(1, 0, 0))
RotationX(degrees) ==
    << <<1000, 0, 0, 0>>,
       <<0, CosThousandths(degrees), -SinThousandths(degrees), 0>>,
       <<0, SinThousandths(degrees), CosThousandths(degrees), 0>>,
       <<0, 0, 0, 1000>> >>

\* glm::rotate(glm::radians(degrees), glm::vec3(0, 1, 0))
RotationY(degrees) ==
    << <<CosThousandths(degrees), 0, SinThousandths(degrees), 0>>,
       <<0, 1000, 0, 0>>,
       <<-SinThousandths(degrees), 0, CosThousandths(degrees), 0>>,
       <<0, 0, 0, 1000>> >>

\* glm::rotate(glm::radians(degrees), glm::vec3(0, 0, 1))
RotationZ(degrees) ==
    << <<CosThousandths(degrees), -SinThousandths(degrees), 0, 0>>,
       <<SinThousandths(degrees), CosThousandths(degrees), 0, 0>>,
       <<0, 0, 1000, 0>>,
       <<0, 0, 0, 1000>> >>

\* glm::translate(positionXYZ)
TranslationMatrix(positionXYZ) ==
    << <<1000, 0, 0, positionXYZ[1]>>,
       <<0, 1000, 0, positionXYZ[2]>>,
       <<0, 0, 1000, positionXYZ[3]>>,
       <<0, 0, 0, 1000>> >>

\* the factors multiplied the other way round
ModelView_Reversed(scaleXYZ, XrotationDegrees, YrotationDegrees, ZrotationDegrees, positionXYZ) ==
    MatMul(ScaleMatrix(scaleXYZ),
       MatMul(RotationX(XrotationDegrees),
          MatMul(RotationY(YrotationDegrees),
             MatMul(RotationZ(ZrotationDegrees),
                    TranslationMatrix(positionXYZ)))))

\* modelView = translation * rotationZ * rotationY * rotationX * scale
ModelView(scaleXYZ, XrotationDegrees, YrotationDegrees, ZrotationDegrees, positionXYZ) ==
    MatMul(TranslationMatrix(positionXYZ),
       MatMul(RotationZ(ZrotationDegrees),
          MatMul(RotationY(YrotationDegrees),
             MatMul(RotationX(XrotationDegrees),
                    ScaleMatrix(scaleXYZ)))))

-----------------------------------------------------------------------------
(* Shading state dispatch: what each operation sends to the shader manager *)

\* the sink after a sequence of <<name, value>> calls
RECURSIVE ApplyCalls(_, _)
ApplyCalls(u, calls) ==
    IF calls = << >>
    THEN u
    ELSE ApplyCalls([u EXCEPT ![Head(calls)[1]] = Head(calls)[2]],
                    Tail(calls))

TransformationCalls(scaleXYZ, XrotationDegrees, YrotationDegrees, ZrotationDegrees, positionXYZ) ==
    IF m_pShaderManager # "NULL"
    THEN << <<"model", ModelView(scaleXYZ, XrotationDegrees,
                                 YrotationDegrees, ZrotationDegrees,
                                 positionXYZ)>> >>
    ELSE << >>

\* SetShaderColor that leaves the use-texture flag as it is
ColorCalls_KeepsTextureFlag(redColorValue, greenColorValue, blueColorValue, alphaValue) ==
    IF m_pShaderManager # "NULL"
    THEN << <<"objectColor", <<redColorValue, greenColorValue,
                               blueColorValue, alphaValue>> >> >>
    ELSE << >>

\* setIntValue(g_UseTextureName, false) stores 0
ColorCalls(redColorValue, greenColorValue, blueColorValue, alphaValue) ==
    IF m_pShaderManager # "NULL"
    THEN << <<"bUseTexture", 0>>,
            <<"objectColor", <<redColorValue, greenColorValue,
                               blueColorValue, alphaValue>> >> >>
    ELSE << >>

\* SetShaderTexture that sends the texture ID instead of the slot
TextureCalls_SendsID(textureTag) ==
    IF m_pShaderManager # "NULL"
    THEN << <<"bUseTexture", 1>>,
            <<"objectTexture", FindTextureID(textureTag)>> >>
    ELSE << >>

\* SetShaderTexture that sends nothing for a tag it cannot resolve
TextureCalls_SkipsUnregistered(textureTag) ==
    IF m_pShaderManager # "NULL" /\ FindTextureSlot(textureTag) # NotFound
    THEN << <<"bUseTexture", 1>>,
            <<"objectTexture", FindTextureSlot(textureTag)>> >>
    ELSE << >>

\* setIntValue(g_UseTextureName, true) stores 1
TextureCalls(textureTag) ==
    IF m_pShaderManager # "NULL"
    THEN << <<"bUseTexture", 1>>,
            <<"objectTexture", FindTextureSlot(textureTag)>> >>
    ELSE << >>

\* SetTextureUVScale that also switches texturing on
UVScaleCalls_SetsTextureFlag(u, v) ==
    IF m_pShaderManager # "NULL"
    THEN << <<"bUseTexture", 1>>, <<"UVscale", <<u, v>> >> >>
    ELSE << >>

UVScaleCalls(u, v) ==
    IF m_pShaderManager # "NULL"
    THEN << <<"UVscale", <<u, v>> >> >>
    ELSE << >>

\* what every shading operation leaves alone
ShadingFrame ==
    /\ alive = "alive"
    /\ lastRet' = FALSE
    /\ lastOut' = NoMaterial
    /\ UNCHANGED << m_pShaderManager, m_textureIDs, m_adjacent,
                    m_loadedTextures, m_objectMaterials, glNextName,
                    glActiveUnit, glBound, glDeleted, stbLiveImages,
                    oobWrites, alive, env, m_basicMeshes, frameLog >>

SetTransformations(scaleXYZ, XrotationDegrees, YrotationDegrees, ZrotationDegrees, positionXYZ) ==
    /\ ShadingFrame
    /\ lastOp' = "SetTransformations"
    /\ lastIn' = [scaleXYZ |-> scaleXYZ,
                  XrotationDegrees |-> XrotationDegrees,
                  YrotationDegrees |-> YrotationDegrees,
                  ZrotationDegrees |-> ZrotationDegrees,
                  positionXYZ |-> positionXYZ]
    /\ lastCalls' = TransformationCalls(scaleXYZ, XrotationDegrees,
                        YrotationDegrees, ZrotationDegrees, positionXYZ)
    /\ uniforms' = ApplyCalls(uniforms, lastCalls')

SetShaderColor(redColorValue, greenColorValue, blueColorValue, alphaValue) ==
    /\ ShadingFrame
    /\ lastOp' = "SetShaderColor"
    /\ lastIn' = [redColorValue |-> redColorValue,
                  greenColorValue |-> greenColorValue,
                  blueColorValue |-> blueColorValue,
                  alphaValue |-> alphaValue]
    /\ lastCalls' = ColorCalls(redColorValue, greenColorValue,
                               blueColorValue, alphaValue)
    /\ uniforms' = ApplyCalls(uniforms, lastCalls')

SetShaderTexture(textureTag) ==
    /\ ShadingFrame
    /\ lastOp' = "SetShaderTexture"
    /\ lastIn' = [NoArgs EXCEPT !.tag = textureTag]
    /\ lastCalls' = TextureCalls(textureTag)
    /\ uniforms' = ApplyCalls(uniforms, lastCalls')

SetTextureUVScale(u, v) ==
    /\ ShadingFrame
    /\ lastOp' = "SetTextureUVScale"
    /\ lastIn' = [u |-> u, v |-> v]
    /\ lastCalls' = UVScaleCalls(u, v)
    /\ uniforms' = ApplyCalls(uniforms, lastCalls')

-----------------------------------------------------------------------------
(* The scene: what PrepareScene loads and defines, and the calls each      *)
(* Render function makes, in order.  A call is a tuple headed by the name  *)
(* of the operation; "Draw" stands for m_basicMeshes->Draw<kind>Mesh().    *)

\* RenderBackground without its SetShaderColor call
RenderBackground_NoColor ==
    << <<"SetTransformations", <<20000, 500, -10000>>, 90, 0, 0, <<0, 0, -9100>>>>,
       <<"SetShaderTexture", "background">>,
       <<"SetTextureUVScale", 5000, 5000>>,
       <<"SetShaderMaterial", "wall">>,
       <<"Draw", "Plane">> >>

RenderBackground ==
    << <<"SetTransformations", <<20000, 500, -10000>>, 90, 0, 0, <<0, 0, -9100>>>>,
       <<"SetShaderColor", 929, 835, 784, 1000>>,
       <<"SetShaderTexture", "background">>,
       <<"SetTextureUVScale", 5000, 5000>>,
       <<"SetShaderMaterial", "wall">>,
       <<"Draw", "Plane">> >>

RenderTable ==
    << <<"SetTransformations", <<20000, 600, 8000>>, 0, 0, 0, <<0, -300, -5000>>>>,
       <<"SetShaderTexture", "table">>,
       <<"SetTextureUVScale", 1000, 1000>>,
       <<"SetShaderMaterial", "wood">>,
       <<"Draw", "Box">> >>

RenderDraughtLivingDeath ==
    << <<"SetTransformations", <<800, 3000, 700>>, 0, 0, 0, <<0, 0, -7000>>>>,
       <<"SetShaderTexture", "draught-potion">>,
       <<"SetTextureUVScale", 1000, 1000>>,
       <<"SetShaderMaterial", "liquid">>,
       <<"Draw", "Cylinder">>,
       <<"SetTransformations", <<800, 500, 700>>, 0, 0, 0, <<0, 3000, -7000>>>>,
       <<"SetShaderColor", 827, 824, 902, 800>>,
       <<"SetShaderMaterial", "glass">>,
       <<"Draw", "TaperedCylinder">>,
       <<"SetTransformations", <<400, 1200, 400>>, 0, 0, 0, <<0, 3000, -7000>>>>,
       <<"SetShaderColor", 827, 824, 902, 800>>,
       <<"SetShaderMaterial", "glass">>,
       <<"Draw", "Cylinder">>,
       <<"SetTransformations", <<400, 500, 500>>, 90, 0, 0, <<0, 4200, -7000>>>>,
       <<"SetShaderColor", 827, 824, 902, 800>>,
       <<"SetShaderMaterial", "glass">>,
       <<"Draw", "Torus">>,
       <<"SetTransformations", <<400, 500, 200>>, 90, 0, 0, <<0, 4000, -7000>>>>,
       <<"SetShaderTexture", "black-twine">>,
       <<"SetTextureUVScale", 1000, 1000>>,
       <<"SetShaderMaterial", "twine">>,
       <<"Draw", "Torus">>,
       <<"SetTransformations", <<400, 500, 200>>, -92, 0, 0, <<0, 3900, -7000>>>>,
       <<"SetShaderTexture", "black-twine">>,
       <<"SetTextureUVScale", 1000, 1000>>,
       <<"SetShaderMaterial", "twine">>,
       <<"Draw", "Torus">>,
       <<"SetTransformations", <<400, 500, 200>>, 89, 0, 0, <<0, 3800, -7000>>>>,
       <<"SetShaderTexture", "black-twine">>,
       <<"SetTextureUVScale", 1000, 1000>>,
       <<"SetShaderMaterial", "twine">>,
       <<"Draw", "Torus">>,
       <<"SetTransformations", <<400, 500, 200>>, -95, 0, 0, <<0, 3700, -7000>>>>,
       <<"SetShaderTexture", "black-twine">>,
       <<"SetTextureUVScale", 1000, 1000>>,
       <<"SetShaderMaterial", "twine">>,
       <<"Draw", "Torus">>,
       <<"SetTransformations", <<400, 500, 200>>, 90, 0, 0, <<0, 3600, -7000>>>>,
       <<"SetShaderTexture", "black-twine">>,
       <<"SetTextureUVScale", 1000, 1000>>,
       <<"SetShaderMaterial", "twine">>,
       <<"Draw", "Torus">>,
       <<"SetTransformations", <<300, 400, 400>>, 0, 0, 0, <<0, 4000, -7000>>>>,
       <<"SetShaderTexture", "bottle-cork">>,
       <<"SetTextureUVScale", 1000, 1000>>,
       <<"SetShaderMaterial", "twine">>,
       <<"Draw", "Cylinder">> >>

RenderAmortentia ==
    << <<"SetTransformations", <<800, 1800, 1000>>, 0, -5, 0, <<1600, 0, -6500>>>>,
       <<"SetShaderTexture", "love-potion">>,
       <<"SetTextureUVScale", 1000, 1000>>,
       <<"SetShaderMaterial", "loveGlow">>,
       <<"Draw", "Cylinder">>,
       <<"SetTransformations", <<800, 500, 1000>>, 0, 0, 0, <<1600, 1800, -6500>>>>,
       <<"SetShaderColor", 827, 824, 902, 800>>,
       <<"SetShaderMaterial", "glass">>,
       <<"Draw", "TaperedCylinder">>,
       <<"SetTransformations", <<400, 800, 500>>, 0, 0, 0, <<1600, 2000, -6500>>>>,
       <<"SetShaderColor", 827, 824, 902, 800>>,
       <<"SetShaderMaterial", "glass">>,
       <<"Draw", "Cylinder">>,
       <<"SetTransformations", <<400, 500, 500>>, 90, 0, 0, <<1600, 2800, -6500>>>>,
       <<"SetShaderColor", 827, 824, 902, 800>>,
       <<"SetShaderMaterial", "glass">>,
       <<"Draw", "Torus">>,
       <<"SetTransformations", <<300, 200, 400>>, 0, 0, 0, <<1600, 2800, -6500>>>>,
       <<"SetShaderTexture", "bottle-cork">>,
       <<"SetShaderMaterial", "twine">>,
       <<"Draw", "Cylinder">>,
       <<"SetTransformations", <<400, 500, 300>>, 90, 0, 0, <<1600, 2400, -6500>>>>,
       <<"SetShaderTexture", "brown-twine">>,
       <<"SetTextureUVScale", 1000, 1000>>,
       <<"SetShaderMaterial", "twine">>,
       <<"Draw", "Torus">>,
       <<"SetTransformations", <<400, 500, 300>>, 93, 0, 0, <<1600, 2300, -6500>>>>,
       <<"SetShaderTexture", "brown-twine">>,
       <<"SetTextureUVScale", 1000, 1000>>,
       <<"SetShaderMaterial", "twine">>,
       <<"Draw", "Torus">>,
       <<"SetTransformations", <<400, 500, 300>>, -94, 0, 0, <<1600, 2500, -6500>>>>,
       <<"SetShaderTexture", "brown-twine">>,
       <<"SetTextureUVScale", 1000, 1000>>,
       <<"SetShaderMaterial", "twine">>,
       <<"Draw", "Torus">>,
       <<"SetTransformations", <<400, 500, 300>>, -91, 0, 0, <<1600, 2600, -6500>>>>,
       <<"SetShaderTexture", "brown-twine">>,
       <<"SetTextureUVScale", 1000, 1000>>,
       <<"SetShaderMaterial", "twine">>,
       <<"Draw", "Torus">> >>

RenderThunderbrew ==
    << <<"SetTransformations", <<800, 2500, 700>>, 0, 0, 0, <<3200, 0, -6000>>>>,
       <<"SetShaderTexture", "stun-potion">>,
       <<"SetTextureUVScale", 1000, 1000>>,
       <<"SetShaderMaterial", "liquid">>,
       <<"Draw", "Cylinder">>,
       <<"SetTransformations", <<800, 500, 700>>, 0, 0, 0, <<3200, 2500, -6000>>>>,
       <<"SetShaderColor", 827, 824, 902, 800>>,
       <<"SetShaderMaterial", "glass">>,
       <<"Draw", "TaperedCylinder">>,
       <<"SetTransformations", <<400, 1000, 400>>, 0, 0, 0, <<3200, 2500, -6000>>>>,
       <<"SetShaderColor", 827, 824, 902, 800>>,
       <<"SetShaderMaterial", "glass">>,
       <<"Draw", "Cylinder">>,
       <<"SetTransformations", <<400, 500, 500>>, 90, 0, 0, <<3200, 3500, -6000>>>>,
       <<"SetShaderColor", 827, 824, 902, 800>>,
       <<"SetShaderMaterial", "glass">>,
       <<"Draw", "Torus">>,
       <<"SetTransformations", <<400, 500, 200>>, 90, 0, 0, <<3200, 3000, -6000>>>>,
       <<"SetShaderTexture", "brown-twine">>,
       <<"SetTextureUVScale", 1000, 1000>>,
       <<"SetShaderMaterial", "twine">>,
       <<"Draw", "Torus">>,
       <<"SetTransformations", <<400, 500, 200>>, -92, 0, 0, <<3200, 3300, -6000>>>>,
       <<"SetShaderTexture", "brown-twine">>,
       <<"SetTextureUVScale", 1000, 1000>>,
       <<"SetShaderMaterial", "twine">>,
       <<"Draw", "Torus">>,
       <<"SetTransformations", <<400, 500, 200>>, 89, 0, 0, <<3200, 3100, -6000>>>>,
       <<"SetShaderTexture", "brown-twine">>,
       <<"SetTextureUVScale", 1000, 1000>>,
       <<"SetShaderMaterial", "twine">>,
       <<"Draw", "Torus">>,
       <<"SetTransformations", <<400, 500, 200>>, -95, 0, 0, <<3200, 3200, -6000>>>>,
       <<"SetShaderTexture", "brown-twine">>,
       <<"SetTextureUVScale", 1000, 1000>>,
       <<"SetShaderMaterial", "twine">>,
       <<"Draw", "Torus">>,
       <<"SetTransformations", <<300, 400, 400>>, 0, 0, 0, <<3200, 3300, -6000>>>>,
       <<"SetShaderTexture", "bottle-cork">>,
       <<"SetShaderMaterial", "twine">>,
       <<"Draw", "Cylinder">> >>

RenderFelix ==
    << <<"SetTransformations", <<1300, 1400, 1300>>, 0, 0, 0, <<-2700, 1000, -6000>>>>,
       <<"SetShaderTexture", "lucky-potion">>,
       <<"SetTextureUVScale", 1000, 1000>>,
       <<"SetShaderMaterial", "felixGlow">>,
       <<"Draw", "Sphere">>,
       <<"SetTransformations", <<800, 1300, 800>>, 0, 0, 0, <<-2700, 1500, -6000>>>>,
       <<"SetShaderTexture", "lucky-potion">>,
       <<"SetTextureUVScale", 1000, 1000>>,
       <<"SetShaderMaterial", "felixGlow">>,
       <<"Draw", "TaperedCylinder">>,
       <<"SetTransformations", <<400, 1000, 400>>, 0, 0, 0, <<-2700, 2600, -6000>>>>,
       <<"SetShaderColor", 827, 824, 902, 800>>,
       <<"SetShaderMaterial", "glass">>,
       <<"Draw", "Cylinder">>,
       <<"SetTransformations", <<500, 400, 500>>, 90, 0, 0, <<-2700, 3600, -6000>>>>,
       <<"SetShaderColor", 827, 824, 902, 800>>,
       <<"SetShaderMaterial", "glass">>,
       <<"Draw", "Torus">>,
       <<"SetTransformations", <<300, 400, 400>>, 0, 0, 0, <<-2700, 3500, -6000>>>>,
       <<"SetShaderTexture", "bottle-cork">>,
       <<"SetShaderMaterial", "twine">>,
       <<"Draw", "Cylinder">>,
       <<"SetTransformations", <<500, 500, 1000>>, 0, 0, 0, <<-3200, 3000, -6000>>>>,
       <<"SetShaderColor", 827, 824, 902, 800>>,
       <<"SetShaderMaterial", "glass">>,
       <<"Draw", "Torus">>,
       <<"SetTransformations", <<400, 400, 200>>, 90, 0, 0, <<-2700, 3300, -6000>>>>,
       <<"SetShaderTexture", "brown-twine">>,
       <<"SetTextureUVScale", 1000, 1000>>,
       <<"SetShaderMaterial", "twine">>,
       <<"Draw", "Torus">>,
       <<"SetTransformations", <<400, 400, 200>>, 90, 0, 0, <<-2700, 3400, -6000>>>>,
       <<"SetShaderTexture", "brown-twine">>,
       <<"SetTextureUVScale", 1000, 1000>>,
       <<"SetShaderMaterial", "twine">>,
       <<"Draw", "Torus">>,
       <<"SetTransformations", <<400, 400, 200>>, 90, 0, 0, <<-2700, 3450, -6000>>>>,
       <<"SetShaderTexture", "brown-twine">>,
       <<"SetTextureUVScale", 1000, 1000>>,
       <<"SetShaderMaterial", "twine">>,
       <<"Draw", "Torus">>,
       <<"SetTransformations", <<400, 400, 200>>, 90, 0, 0, <<-2700, 3500, -6000>>>>,
       <<"SetShaderTexture", "brown-twine">>,
       <<"SetTextureUVScale", 1000, 1000>>,
       <<"SetShaderMaterial", "twine">>,
       <<"Draw", "Torus">> >>

RenderFlooPowder ==
    << <<"SetTransformations", <<1200, 1800, 1200>>, 0, 0, 0, <<-1500, 0, -3800>>>>,
       <<"SetShaderColor", 827, 824, 902, 800>>,
       <<"SetShaderMaterial", "glass">>,
       <<"Draw", "Cylinder">>,
       <<"SetTransformations", <<1200, 500, 1200>>, 0, 0, 0, <<-1500, 1800, -3800>>>>,
       <<"SetShaderColor", 827, 824, 902, 800>>,
       <<"SetShaderMaterial", "glass">>,
       <<"Draw", "HalfSphere">>,
       <<"SetTransformations", <<1100, 1100, 300>>, 90, 0, 0, <<-1500, 1800, -3800>>>>,
       <<"SetShaderColor", 827, 824, 902, 800>>,
       <<"SetShaderMaterial", "glass">>,
       <<"Draw", "Torus">>,
       <<"SetTransformations", <<400, 600, 400>>, 0, 0, 0, <<-1500, 2000, -3800>>>>,
       <<"SetShaderColor", 827, 824, 902, 800>>,
       <<"SetShaderMaterial", "glass">>,
       <<"Draw", "Cylinder">> >>

\* what SetShaderMaterial sends, material being what its local holds on entry
ShaderMaterialCalls(materialTag, material) ==
    IF Len(m_objectMaterials) > 0
    THEN LET found == FindMaterial(materialTag, material)
         IN  IF found.ret = TRUE
             THEN MaterialCalls(found.material)
             ELSE << >>
    ELSE << >>

\* RenderScene: the calls of the seven Render functions, one after the other
RenderSceneScript ==
    RenderBackground \o RenderTable \o RenderDraughtLivingDeath
       \o RenderAmortentia \o RenderThunderbrew \o RenderFelix
       \o RenderFlooPowder

\* the SetTransformations calls of a frame
SceneTransformations ==
    { RenderSceneScript[k] :
         k \in { j \in 1 .. Len(RenderSceneScript) :
                     RenderSceneScript[j][1] = "SetTransformations" } }

\* the matrix each of them composes, computed once
SceneModelViews ==
    [c \in SceneTransformations |-> ModelView(c[2], c[3], c[4], c[5], c[6])]

\* the calls one call of a Render function sends to the shader manager
SinkCalls(c, material) ==
    CASE c[1] = "SetTransformations" ->
            \* as TransformationCalls, the matrix taken from SceneModelViews
            IF m_pShaderManager # "NULL"
            THEN << <<"model", SceneModelViews[c]>> >>
            ELSE << >>
      [] c[1] = "SetShaderColor" -> ColorCalls(c[2], c[3], c[4], c[5])
      [] c[1] = "SetShaderTexture" -> TextureCalls(c[2])
      [] c[1] = "SetTextureUVScale" -> UVScaleCalls(c[2], c[3])
      [] c[1] = "SetShaderMaterial" -> ShaderMaterialCalls(c[2], material)
      [] OTHER -> << >>

\* a frame in progress: the sink, the calls sent, the Render function
\* running, the calls it made since its last draw, and the draws issued;
\* a draw is logged with the function and the calls that led to it (its
\* instruction), the uniforms in effect, and whether its mesh was loaded
FrameStart ==
    [u |-> uniforms, calls |-> << >>, object |-> "", pending |-> << >>,
     log |-> << >>, alive |-> "alive"]

\* one Render function run from its k-th call on
RECURSIVE RunCalls(_, _, _, _)
RunCalls(script, k, f, material) ==
    IF k > Len(script) \/ f.alive # "alive"
    THEN f
    ELSE LET c == script[k]
             sent == SinkCalls(c, material)
         IN  IF c[1] = "Draw"
             THEN RunCalls(script, k + 1,
                      [f EXCEPT !.log = Append(@,
                          [mesh |-> c[2],
                           loaded |-> c[2] \in m_basicMeshes,
                           object |-> f.object,
                           instruction |-> f.pending,
                           uniforms |-> [n \in DrawUniformNames |-> f.u[n]]]),
                                !.pending = << >>],
                      material)
             ELSE IF sent # << >> /\ m_pShaderManager = "NULL"
             THEN \* SetShaderMaterial uses the null shader manager
                  [f EXCEPT !.alive = "crashed"]
             ELSE RunCalls(script, k + 1,
                      [f EXCEPT !.u = ApplyCalls(@, sent),
                                !.calls = @ \o sent,
                                !.pending = Append(@, c)],
                      material)

\* the Render function of that name, entered with frame f
RunFunction(name, script, f, material) ==
    RunCalls(script, 1, [f EXCEPT !.object = name, !.pending = << >>],
             material)

\* a RenderScene that renders the table before the background
RenderSceneFrame_TableFirst(material) ==
    LET f1 == RunFunction("RenderTable", RenderTable, FrameStart, material)
        f2 == RunFunction("RenderBackground", RenderBackground, f1, material)
        f3 == RunFunction("RenderDraughtLivingDeath",
                          RenderDraughtLivingDeath, f2, material)
        f4 == RunFunction("RenderAmortentia", RenderAmortentia, f3, material)
        f5 == RunFunction("RenderThunderbrew", RenderThunderbrew, f4,
                          material)
        f6 == RunFunction("RenderFelix", RenderFelix, f5, material)
    IN  RunFunction("RenderFlooPowder", RenderFlooPowder, f6, material)

\* RenderScene: the seven Render functions one after the other
RenderSceneFrame(material) ==
    LET f1 == RunFunction("RenderBackground", RenderBackground, FrameStart,
                          material)
        f2 == RunFunction("RenderTable", RenderTable, f1, material)
        f3 == RunFunction("RenderDraughtLivingDeath",
                          RenderDraughtLivingDeath, f2, material)
        f4 == RunFunction("RenderAmortentia", RenderAmortentia, f3, material)
        f5 == RunFunction("RenderThunderbrew", RenderThunderbrew, f4,
                          material)
        f6 == RunFunction("RenderFelix", RenderFelix, f5, material)
    IN  RunFunction("RenderFlooPowder", RenderFlooPowder, f6, material)

\* the material tags RenderScene passes to SetShaderMaterial
FrameMaterialTags ==
    { RenderSceneScript[k][2] :
         k \in { j \in 1 .. Len(RenderSceneScript) :
                     RenderSceneScript[j][1] = "SetShaderMaterial" } }

\* What the local of SetShaderMaterial may hold in a frame.  The local is
\* read uninitialised only when the list is not empty and lacks a tag asked
\* for; in every other frame its value is never looked at.
FrameUninitMaterials ==
    IF /\ Len(m_objectMaterials) > 0
       /\ \E tag \in FrameMaterialTags :
             \A i \in 1 .. Len(m_objectMaterials) :
                m_objectMaterials[i].tag # tag
    THEN UninitMaterials
    ELSE {NoMaterial}

RenderScene ==
    /\ alive = "alive"
    /\ lastOp' = "RenderScene"
    /\ lastIn' = NoArgs
    /\ lastRet' = FALSE
    /\ lastOut' = NoMaterial
    /\ \E material \in FrameUninitMaterials :
          LET f == RenderSceneFrame(material)
          IN  /\ uniforms' = f.u
              /\ lastCalls' = f.calls
              /\ frameLog' = f.log
              /\ alive' = f.alive
    /\ UNCHANGED << m_pShaderManager, m_textureIDs, m_adjacent,
                    m_loadedTextures, m_objectMaterials, glNextName,
                    glActiveUnit, glBound, glDeleted, stbLiveImages,
                    oobWrites, env, m_basicMeshes >>

-----------------------------------------------------------------------------
(* PrepareScene.  Its nine loads run on a copy of the registry state, one  *)
(* after the other; a load that writes past the array has two outcomes, so *)
(* the result is a set of registry states.                                 *)

\* LoadSceneTextures without the load of the cork
SceneTextureLoads_NoCork ==
    << [file |-> "textures/draught-living-death.jpg", tag |-> "draught-potion"],
       [file |-> "textures/twine-black.png", tag |-> "black-twine"],
       [file |-> "textures/wood-seamless.jpg", tag |-> "table"],
       [file |-> "textures/twine-brown.png", tag |-> "brown-twine"],
       [file |-> "textures/wall.jpg", tag |-> "background"],
       [file |-> "textures/amortentia.jpg", tag |-> "love-potion"],
       [file |-> "textures/felix.jpg", tag |-> "lucky-potion"],
       [file |-> "textures/thunderbrew.jpg", tag |-> "stun-potion"] >>

\* LoadSceneTextures with the cork loaded last
SceneTextureLoads_CorkLast ==
    << [file |-> "textures/draught-living-death.jpg", tag |-> "draught-potion"],
       [file |-> "textures/twine-black.png", tag |-> "black-twine"],
       [file |-> "textures/wood-seamless.jpg", tag |-> "table"],
       [file |-> "textures/twine-brown.png", tag |-> "brown-twine"],
       [file |-> "textures/wall.jpg", tag |-> "background"],
       [file |-> "textures/amortentia.jpg", tag |-> "love-potion"],
       [file |-> "textures/felix.jpg", tag |-> "lucky-potion"],
       [file |-> "textures/thunderbrew.jpg", tag |-> "stun-potion"],
       [file |-> "textures/cork.jpg", tag |-> "bottle-cork"] >>

\* LoadSceneTextures: the files loaded and the tags they get, in order
SceneTextureLoads ==
    << [file |-> "textures/cork.jpg", tag |-> "bottle-cork"],
       [file |-> "textures/draught-living-death.jpg", tag |-> "draught-potion"],
       [file |-> "textures/twine-black.png", tag |-> "black-twine"],
       [file |-> "textures/wood-seamless.jpg", tag |-> "table"],
       [file |-> "textures/twine-brown.png", tag |-> "brown-twine"],
       [file |-> "textures/wall.jpg", tag |-> "background"],
       [file |-> "textures/amortentia.jpg", tag |-> "love-potion"],
       [file |-> "textures/felix.jpg", tag |-> "lucky-potion"],
       [file |-> "textures/thunderbrew.jpg", tag |-> "stun-potion"] >>

SceneFiles == { SceneTextureLoads[k].file : k \in 1 .. Len(SceneTextureLoads) }

SceneTextureTags ==
    { SceneTextureLoads[k].tag : k \in 1 .. Len(SceneTextureLoads) }

\* what stbi_load makes of a file: nothing, or an image of so many channels
MissingFile == [decoded |-> FALSE, colorChannels |-> 0]
GrayImage == [decoded |-> TRUE, colorChannels |-> 1]
RGBImage == [decoded |-> TRUE, colorChannels |-> 3]

Loadable(image) == image.decoded /\ ChannelsSupported(image.colorChannels)

\* DefineObjectMaterials without the twine
SceneMaterials_NoTwine ==
    << WoodMaterial,
       GlassMaterial,
       [tag |-> "wall", diffuseColor |-> <<800, 800, 900>>,
        specularColor |-> <<0, 0, 0>>, shininess |-> 2000],
       [tag |-> "liquid", diffuseColor |-> <<329, 212, 400>>,
        specularColor |-> <<100, 50, 100>>, shininess |-> 500],
       [tag |-> "felixGlow", diffuseColor |-> <<929, 961, 424>>,
        specularColor |-> <<100, 100, 100>>, shininess |-> 700],
       [tag |-> "loveGlow", diffuseColor |-> <<922, 435, 773>>,
        specularColor |-> <<100, 100, 100>>, shininess |-> 700] >>

\* DefineObjectMaterials: the seven materials pushed, in order
SceneMaterials ==
    << WoodMaterial,
       GlassMaterial,
       [tag |-> "wall", diffuseColor |-> <<800, 800, 900>>,
        specularColor |-> <<0, 0, 0>>, shininess |-> 2000],
       [tag |-> "twine", diffuseColor |-> <<100, 100, 100>>,
        specularColor |-> <<100, 100, 100>>, shininess |-> 200],
       [tag |-> "liquid", diffuseColor |-> <<329, 212, 400>>,
        specularColor |-> <<100, 50, 100>>, shininess |-> 500],
       [tag |-> "felixGlow", diffuseColor |-> <<929, 961, 424>>,
        specularColor |-> <<100, 100, 100>>, shininess |-> 700],
       [tag |-> "loveGlow", diffuseColor |-> <<922, 435, 773>>,
        specularColor |-> <<100, 100, 100>>, shininess |-> 700] >>

\* the meshes PrepareScene loads
PreparedMeshes ==
    {"Plane", "Cylinder", "TaperedCylinder", "Torus", "Sphere", "Box"}

\* the registry and what CreateGLTexture and BindGLTextures touch besides
RegistryNow ==
    [ids |-> m_textureIDs, adj |-> m_adjacent, n |-> m_loadedTextures,
     next |-> glNextName, unit |-> glActiveUnit, bound |-> glBound,
     live |-> stbLiveImages, oob |-> oobWrites, alive |-> alive]

\* the registration of CreateGLTexture on registry state r
RegisterOutcomes(r, textureID, tag) ==
    IF r.n \in Slots
    THEN { [r EXCEPT !.ids[r.n] = [tag |-> tag, ID |-> textureID],
                     !.n = r.n + 1] }
    ELSE IF r.n \in AdjacentCells
    THEN { [r EXCEPT !.adj[r.n] = [tag |-> tag, ID |-> textureID],
                     !.oob = @ \cup {r.n},
                     !.n = r.n + 1],
           [r EXCEPT !.oob = @ \cup {r.n}, !.alive = "crashed"] }
    ELSE { }

\* a CreateGLTexture whose failure ends the process
LoadOutcomes_FailureIsFatal(r, image, tag) ==
    IF r.alive # "alive"
    THEN {r}
    ELSE IF ~Loadable(image)
    THEN { [r EXCEPT !.alive = "crashed"] }
    ELSE RegisterOutcomes([r EXCEPT !.next = r.next + 1,
                                    !.bound[r.unit] = 0],
                          r.next, tag)

\* CreateGLTexture on registry state r
LoadOutcomes(r, image, tag) ==
    IF r.alive # "alive"
    THEN {r}
    ELSE IF ~image.decoded
    THEN {r}
    ELSE IF ~ChannelsSupported(image.colorChannels)
    THEN { [r EXCEPT !.next = r.next + 1,
                     !.bound[r.unit] = r.next,
                     !.live = r.live + 1] }
    ELSE RegisterOutcomes([r EXCEPT !.next = r.next + 1,
                                    !.bound[r.unit] = 0],
                          r.next, tag)

\* BindGLTextures on registry state r
BindOutcome(r) ==
    [r EXCEPT !.bound = [u \in Units |->
                            IF u < r.n
                            THEN (IF u \in Slots THEN r.ids[u] ELSE r.adj[u]).ID
                            ELSE r.bound[u]],
              !.unit = IF r.n = 0 THEN r.unit ELSE r.n - 1]

\* LoadSceneTextures from its k-th load on, files being what stbi_load makes
\* of each file
RECURSIVE LoadSceneTextures(_, _, _)
LoadSceneTextures(rs, k, files) ==
    IF k > Len(SceneTextureLoads)
    THEN { IF r.alive = "alive" THEN BindOutcome(r) ELSE r : r \in rs }
    ELSE LoadSceneTextures(
            UNION { LoadOutcomes(r, files[SceneTextureLoads[k].file],
                                 SceneTextureLoads[k].tag) : r \in rs },
            k + 1, files)

\* calls of PrepareScene per run
MaxPrepares == 2

\* the number of files that load
LoadableCount(files) == Cardinality({ f \in SceneFiles : Loadable(files[f]) })

PrepareScene ==
    /\ alive = "alive"
    /\ Len(m_objectMaterials) < Len(SceneMaterials) * MaxPrepares
    /\ m_loadedTextures + LoadableCount(env.files) <= Capacity + MaxOverrun
    /\ lastOp' = "PrepareScene"
    /\ lastIn' = NoArgs
    /\ lastRet' = FALSE
    /\ lastOut' = NoMaterial
    /\ \E r \in LoadSceneTextures({RegistryNow}, 1, env.files) :
          /\ m_textureIDs' = r.ids
          /\ m_adjacent' = r.adj
          /\ m_loadedTextures' = r.n
          /\ glNextName' = r.next
          /\ glActiveUnit' = r.unit
          /\ glBound' = r.bound
          /\ stbLiveImages' = r.live
          /\ oobWrites' = r.oob
          /\ IF r.alive # "alive"
             THEN \* died in a load
                  /\ alive' = r.alive
                  /\ lastCalls' = << >>
                  /\ UNCHANGED << m_objectMaterials, uniforms, m_basicMeshes >>
             ELSE /\ m_objectMaterials' = m_objectMaterials \o SceneMaterials
                  /\ IF m_pShaderManager = "NULL"
                     THEN \* SetupSceneLights uses the null shader manager
                          /\ alive' = "crashed"
                          /\ lastCalls' = << >>
                          /\ UNCHANGED << uniforms, m_basicMeshes >>
                     ELSE /\ uniforms' = ApplyCalls(uniforms, LightCalls)
                          /\ lastCalls' = LightCalls
                          /\ m_basicMeshes' = m_basicMeshes \cup PreparedMeshes
                          /\ UNCHANGED alive
    /\ UNCHANGED << m_pShaderManager, glDeleted, env, frameLog >>

\* the lookups, called on their own
FindTextureIDCall(tag) ==
    /\ alive = "alive"
    /\ lastOp' = "FindTextureID"
    /\ lastIn' = [NoArgs EXCEPT !.tag = tag]
    /\ lastRet' = FindTextureID(tag)
    /\ UNCHANGED << m_pShaderManager, m_textureIDs, m_adjacent,
                    m_loadedTextures, m_objectMaterials, glNextName,
                    glActiveUnit, glBound, glDeleted, stbLiveImages,
                    oobWrites, uniforms, lastCalls, lastOut, alive, env,
                    m_basicMeshes, frameLog >>

FindTextureSlotCall(tag) ==
    /\ alive = "alive"
    /\ lastOp' = "FindTextureSlot"
    /\ lastIn' = [NoArgs EXCEPT !.tag = tag]
    /\ lastRet' = FindTextureSlot(tag)
    /\ UNCHANGED << m_pShaderManager, m_textureIDs, m_adjacent,
                    m_loadedTextures, m_objectMaterials, glNextName,
                    glActiveUnit, glBound, glDeleted, stbLiveImages,
                    oobWrites, uniforms, lastCalls, lastOut, alive, env,
                    m_basicMeshes, frameLog >>

-----------------------------------------------------------------------------
(* The texture registry driven by any caller *)

\* Either three tags and a few decoded images, any of them of an unsupported
\* format, or one tag and enough well-formed images to fill the array and run
\* past it.  genLimit caps the images decoded, leakLimit those rejected for
\* their channel count.
Environments ==
    { [tags |-> TextureTags, genLimit |-> MaxLoads, leakLimit |-> MaxLoads],
      [tags |-> {"table"}, genLimit |-> Capacity + MaxOverrun,
       leakLimit |-> 0] }

Init ==
    /\ Constructor("sink")
    /\ env \in Environments

Next ==
    \/ \E decoded \in BOOLEAN, colorChannels \in Channels, tag \in env.tags :
          CreateGLTexture(decoded, colorChannels, tag)
    \/ BindGLTextures
    \/ Destructor

Spec == Init /\ [][Next]_vars

-----------------------------------------------------------------------------
(* The material list driven by any caller *)

ShaderManagers == {"sink", "NULL"}

InitMaterial ==
    /\ \E pShaderManager \in ShaderManagers : Constructor(pShaderManager)
    /\ env = [tags |-> {}, genLimit |-> 0, leakLimit |-> 0]

NextMaterial ==
    \/ \E material \in MaterialPool : DefineMaterial(material)
    \/ \E tag \in MaterialTags, material \in UninitMaterials :
          FindMaterialCall(tag, material)
    \/ \E materialTag \in MaterialTags : SetShaderMaterial(materialTag)

SpecMaterial == InitMaterial /\ [][NextMaterial]_vars

-----------------------------------------------------------------------------
(* Properties of the texture registry, under Spec *)

Occupied == 0 .. (m_loadedTextures - 1)

RegisteredTags == {Entry(i).tag : i \in Occupied}

Range(seq) == {seq[i] : i \in 1 .. Len(seq)}

\* C1: a CreateGLTexture whose image cannot be decoded, or whose decoded image
\* has a channel count other than 3 or 4, returns false and leaves
\* m_loadedTextures and every slot's tag and ID as they were.
C1_FailedLoadLeavesRegistry ==
    [][ (/\ lastOp' = "CreateGLTexture"
         /\ \/ ~lastIn'.decoded
            \/ lastIn'.colorChannels \notin {3, 4})
        => (/\ lastRet' = FALSE
            /\ m_loadedTextures' = m_loadedTextures
            /\ m_textureIDs' = m_textureIDs
            /\ m_adjacent' = m_adjacent
            /\ oobWrites' = oobWrites) ]_vars

\* a one-channel image was decoded and rejected with two textures registered
C1_Witness ==
    /\ lastOp = "CreateGLTexture"
    /\ lastIn.decoded
    /\ lastIn.colorChannels = 1
    /\ lastRet = FALSE
    /\ m_loadedTextures = 2

\* C2: for every occupied slot i, FindTextureSlot of the tag registered there
\* is i, the number of successful loads before it.
C2_SlotIsRegistrationIndex ==
    \A i \in Occupied : FindTextureSlot(Entry(i).tag) = i

\* C3: FindTextureSlot and FindTextureID return -1 for every tag that no
\* successful load registered, and for a registered tag FindTextureSlot
\* returns an occupied index and neither lookup returns -1.
C3_SentinelOnlyForUnregistered ==
    \A tag \in QueryTags :
        IF tag \in RegisteredTags
        THEN /\ FindTextureSlot(tag) \in Occupied
             /\ FindTextureSlot(tag) # NotFound
             /\ FindTextureID(tag) # NotFound
        ELSE /\ FindTextureSlot(tag) = NotFound
             /\ FindTextureID(tag) = NotFound

\* two textures are registered; one tag of the callers' is not, and neither
\* is the tag the constructor left in the free slots
C3_Witness ==
    /\ m_loadedTextures = 2
    /\ "table" \in RegisteredTags
    /\ "background" \notin RegisteredTags
    /\ FindTextureSlot("background") = NotFound
    /\ FindTextureSlot(EmptyTag) = NotFound
    /\ FindTextureSlot("table") \in Occupied

\* C4: m_loadedTextures never exceeds the capacity 16 and no registration
\* writes to an index outside 0..15.
C4_WithinCapacity ==
    /\ m_loadedTextures <= Capacity
    /\ oobWrites = {}

\* C5: no two occupied slots hold the same tag.
C5_TagsUnique ==
    \A i, j \in Occupied : i # j => Entry(i).tag # Entry(j).tag

\* C6: BindGLTextures binds the ID of slot i to unit i for every occupied
\* slot and leaves every other unit as it was, so that for every registered
\* tag the unit FindTextureSlot returns holds the ID FindTextureID returns.
C6_BindAllByIndex ==
    [][ lastOp' = "BindGLTextures"
        => (/\ \A u \in Units :
                  glBound'[u] = IF u \in Occupied THEN Entry(u).ID
                                ELSE glBound[u]
            /\ \A tag \in RegisteredTags :
                  glBound'[FindTextureSlot(tag)] = FindTextureID(tag)
            /\ m_textureIDs' = m_textureIDs
            /\ m_loadedTextures' = m_loadedTextures) ]_vars

\* three textures were bound, their IDs not equal to their units plus one
\* because an image was rejected in between
C6_Witness ==
    /\ lastOp = "BindGLTextures"
    /\ m_loadedTextures = 3
    /\ stbLiveImages = 1
    /\ \A i \in Occupied : glBound[i] = Entry(i).ID
    /\ Entry(2).ID = 4
    /\ glBound[3] = 0

\* C7: the destructor releases every registered texture ID exactly once and
\* replaces none of them by a newly generated one.
C7_TeardownReleasesOnce ==
    [][ (alive = "alive" /\ alive' = "destroyed")
        => (/\ \A i \in Occupied :
                  Cardinality({k \in 1 .. Len(glDeleted') :
                                  glDeleted'[k] = Entry(i).ID}) = 1
            /\ m_textureIDs' = m_textureIDs
            /\ glNextName' = glNextName) ]_vars

\* the lowest of the first n indices of ids that holds tag, -1 if none does
FirstIndexOf(ids, n, tag) ==
    IF \E i \in 0 .. (n - 1) : ids[i].tag = tag
    THEN CHOOSE i \in 0 .. (n - 1) :
            /\ ids[i].tag = tag
            /\ \A j \in 0 .. (i - 1) : ids[j].tag # tag
    ELSE NotFound

\* C20: a CreateGLTexture that succeeds with m_loadedTextures = n < 16 puts
\* the handle it generated and the tag in slot n, makes m_loadedTextures
\* n + 1 and changes no other slot, so every tag registered before keeps the
\* unit it resolved to.
C20_SuccessfulLoadAppends ==
    [][ ( /\ lastOp' = "CreateGLTexture"
          /\ lastRet' = TRUE
          /\ m_loadedTextures < Capacity )
        => /\ m_textureIDs'[m_loadedTextures] =
                 [tag |-> lastIn'.tag, ID |-> glNextName]
           /\ m_loadedTextures' = m_loadedTextures + 1
           /\ \A i \in Slots \ {m_loadedTextures} :
                 m_textureIDs'[i] = m_textureIDs[i]
           /\ \A tag \in RegisteredTags :
                 FirstIndexOf(m_textureIDs', m_loadedTextures', tag)
                    = FirstIndexOf(m_textureIDs, m_loadedTextures, tag) ]_vars

\* a third texture has just been appended behind two of other tags
C20_Witness ==
    /\ lastOp = "CreateGLTexture"
    /\ lastRet = TRUE
    /\ m_loadedTextures = 3
    /\ m_textureIDs[2].tag = lastIn.tag
    /\ m_textureIDs[0].tag # lastIn.tag
    /\ m_textureIDs[1].tag # m_textureIDs[0].tag
    /\ alive = "alive"

-----------------------------------------------------------------------------
(* Properties of the material list, under SpecMaterial *)

MatchingIndices(tag) ==
    {i \in 1 .. Len(m_objectMaterials) : m_objectMaterials[i].tag = tag}

FirstMatch(tag) ==
    m_objectMaterials[CHOOSE i \in MatchingIndices(tag) :
                         \A j \in MatchingIndices(tag) : i <= j]

\* C8: when entries of the list carry the tag looked up, FindMaterial yields
\* the diffuse colour, specular colour and shininess of the earliest of them.
C8_FirstMatchWins ==
    (lastOp = "FindMaterial" /\ MatchingIndices(lastIn.tag) # {})
    => /\ lastRet = TRUE
       /\ lastOut.diffuseColor = FirstMatch(lastIn.tag).diffuseColor
       /\ lastOut.specularColor = FirstMatch(lastIn.tag).specularColor
       /\ lastOut.shininess = FirstMatch(lastIn.tag).shininess

\* "wood" was defined, then defined again with other values, and looked up
C8_Witness ==
    /\ lastOp = "FindMaterial"
    /\ lastIn.tag = "wood"
    /\ Len(m_objectMaterials) >= 2
    /\ m_objectMaterials[1] = WoodMaterial
    /\ OtherWoodMaterial \in Range(m_objectMaterials)
    /\ lastOut.diffuseColor = WoodMaterial.diffuseColor
    /\ lastOut.shininess = WoodMaterial.shininess

\* C9: FindMaterial returns true exactly when some entry of the list has the
\* tag, and false otherwise, whether the list is empty or not.
C9_FoundIffPresent ==
    lastOp = "FindMaterial"
    => (lastRet = TRUE <=> MatchingIndices(lastIn.tag) # {})

\* C10: with a shader manager present, SetShaderMaterial sends the three
\* material uniforms, with the found entry's values, if the tag is in the
\* list, and otherwise sends nothing.
C10_MaterialOnlyIfFound ==
    (lastOp = "SetShaderMaterial" /\ m_pShaderManager = "sink")
    => IF MatchingIndices(lastIn.tag) # {}
       THEN lastCalls = MaterialCalls(FirstMatch(lastIn.tag))
       ELSE lastCalls = << >>

-----------------------------------------------------------------------------
(* The shading operations driven by any caller, over a small registry *)

\* decoded images per run when the shading operations are in play
MaxShadingLoads == 2

ShadingTags == {"table", "background"}

\* "love-potion" is never loaded here
ShadingQueryTags == ShadingTags \cup {"love-potion"}

ShadingColors == { <<1000, 1000, 1000, 1000>>, <<200, 0, 0, 500>> }

ShadingUVScales == { <<1000, 1000>>, <<5000, 5000>> }

ShadingTransforms ==
    { [scaleXYZ |-> <<2000, 1000, 1000>>, X |-> 0, Y |-> 90, Z |-> 0,
       positionXYZ |-> <<0, 5000, 0>>] }

InitShading ==
    /\ \E pShaderManager \in ShaderManagers : Constructor(pShaderManager)
    /\ env = [tags |-> ShadingTags, genLimit |-> MaxShadingLoads,
              leakLimit |-> 1]

NextShading ==
    \/ \E decoded \in BOOLEAN, colorChannels \in {1, 3}, tag \in env.tags :
          CreateGLTexture(decoded, colorChannels, tag)
    \/ \E c \in ShadingColors : SetShaderColor(c[1], c[2], c[3], c[4])
    \/ \E textureTag \in ShadingQueryTags : SetShaderTexture(textureTag)
    \/ \E uv \in ShadingUVScales : SetTextureUVScale(uv[1], uv[2])
    \/ \E t \in ShadingTransforms :
          SetTransformations(t.scaleXYZ, t.X, t.Y, t.Z, t.positionXYZ)
    \/ m_objectMaterials = << >> /\ DefineMaterial(WoodMaterial)
    \/ SetShaderMaterial("wood")

SpecShading == InitShading /\ [][NextShading]_vars

-----------------------------------------------------------------------------
(* Properties of the shading operations, under SpecShading *)

\* the calls SetShaderTexture makes with a shader manager present
TextureCallsSent(slot) ==
    << <<"bUseTexture", 1>>, <<"objectTexture", slot>> >>

\* C12: SetShaderTexture(tag) with a registered tag, a shader manager being
\* present, sets bUseTexture to true and sends as objectTexture the index at
\* which the tag was (first) registered: an occupied slot holding the tag,
\* with no slot before it holding the tag.
C12_RegisteredTagSendsItsSlot ==
    [][ ( /\ lastOp' = "SetShaderTexture"
          /\ m_pShaderManager # "NULL"
          /\ lastIn'.tag \in RegisteredTags )
        => /\ uniforms'["bUseTexture"] = 1
           /\ uniforms'["objectTexture"] \in Occupied
           /\ Entry(uniforms'["objectTexture"]).tag = lastIn'.tag
           /\ \A i \in Occupied :
                 i < uniforms'["objectTexture"] => Entry(i).tag # lastIn'.tag
           /\ lastCalls' = TextureCallsSent(uniforms'["objectTexture"]) ]_vars

\* SetShaderTexture has resolved a tag registered second, at unit 1.
C12_Witness ==
    /\ lastOp = "SetShaderTexture"
    /\ m_pShaderManager = "sink"
    /\ lastIn.tag \in RegisteredTags
    /\ m_loadedTextures = 2
    /\ m_textureIDs[1].tag = lastIn.tag
    /\ m_textureIDs[0].tag # lastIn.tag
    /\ uniforms["objectTexture"] = 1

\* C13: SetShaderTexture(tag) with a tag that is not registered, a shader
\* manager being present, still sets bUseTexture to true and sends -1 as
\* objectTexture; the call returns normally and reports nothing.
C13_UnregisteredTagSendsSentinel ==
    [][ ( /\ lastOp' = "SetShaderTexture"
          /\ m_pShaderManager # "NULL"
          /\ lastIn'.tag \notin RegisteredTags )
        => /\ uniforms'["bUseTexture"] = 1
           /\ uniforms'["objectTexture"] = NotFound
           /\ lastCalls' = TextureCallsSent(NotFound)
           /\ lastRet' = FALSE
           /\ alive' = "alive" ]_vars

\* "table" was asked for after an image was rejected for its channel count
\* and only "background" got registered.
C13_Witness ==
    /\ lastOp = "SetShaderTexture"
    /\ m_pShaderManager = "sink"
    /\ lastIn.tag = "table"
    /\ RegisteredTags = {"background"}
    /\ stbLiveImages = 1
    /\ uniforms["bUseTexture"] = 1
    /\ uniforms["objectTexture"] = NotFound

\* C14: SetShaderColor(r, g, b, a), a shader manager being present, sets
\* bUseTexture to false and objectColor to (r, g, b, a); SetShaderTexture
\* sets bUseTexture to true; no other operation touches bUseTexture, so the
\* mode in effect is that of the most recent of the two calls.
C14_ModeIsLastColorOrTexture ==
    [][ /\ ( lastOp' = "SetShaderColor" /\ m_pShaderManager # "NULL" )
           => /\ uniforms'["bUseTexture"] = 0
              /\ uniforms'["objectColor"] =
                    << lastIn'.redColorValue, lastIn'.greenColorValue,
                       lastIn'.blueColorValue, lastIn'.alphaValue >>
        /\ ( lastOp' = "SetShaderTexture" /\ m_pShaderManager # "NULL" )
           => uniforms'["bUseTexture"] = 1
        /\ lastOp' \notin {"SetShaderColor", "SetShaderTexture"}
           => uniforms'["bUseTexture"] = uniforms["bUseTexture"] ]_vars

\* A colour was set and a texture selected after it: texture mode.
C14_Witness ==
    /\ lastOp = "SetShaderTexture"
    /\ m_pShaderManager = "sink"
    /\ uniforms["objectColor"] = <<200, 0, 0, 500>>
    /\ uniforms["bUseTexture"] = 1

\* C15: SetTextureUVScale(u, v) changes no uniform but UVscale, which it sets
\* to (u, v) when a shader manager is present; SetShaderColor and
\* SetShaderTexture leave UVscale unchanged.
C15_UVScaleIndependent ==
    [][ /\ lastOp' = "SetTextureUVScale"
           => /\ \A n \in UniformNames \ {"UVscale"} :
                    uniforms'[n] = uniforms[n]
              /\ m_pShaderManager # "NULL"
                    => uniforms'["UVscale"] = << lastIn'.u, lastIn'.v >>
        /\ lastOp' \in {"SetShaderColor", "SetShaderTexture"}
           => uniforms'["UVscale"] = uniforms["UVscale"] ]_vars

\* The UV scale was set in colour mode, with a model matrix, a sampler unit
\* and material values in place.
C15_Witness ==
    /\ lastOp = "SetTextureUVScale"
    /\ m_pShaderManager = "sink"
    /\ uniforms["UVscale"] = <<5000, 5000>>
    /\ uniforms["bUseTexture"] = 0
    /\ uniforms["objectColor"] = <<200, 0, 0, 500>>
    /\ uniforms["objectTexture"] = 0
    /\ uniforms["model"] # ZeroMatrix
    /\ uniforms["material.shininess"] # 0

-----------------------------------------------------------------------------
(* The transform composer driven by any caller *)

TransformScales == { <<2000, 1000, 1000>>, <<2000, 3000, 4000>> }

RightAngles == {0, 90, 180, -90}

TransformPositions == { <<0, 0, 0>>, <<0, 5000, 0>>, <<1000, -2000, 3000>> }

InitTransform ==
    /\ \E pShaderManager \in ShaderManagers : Constructor(pShaderManager)
    /\ env = [tags |-> {}, genLimit |-> 0, leakLimit |-> 0]

NextTransform ==
    \E scaleXYZ \in TransformScales, positionXYZ \in TransformPositions,
       XrotationDegrees \in RightAngles, YrotationDegrees \in RightAngles,
       ZrotationDegrees \in RightAngles :
          SetTransformations(scaleXYZ, XrotationDegrees, YrotationDegrees,
                             ZrotationDegrees, positionXYZ)

SpecTransform == InitTransform /\ [][NextTransform]_vars

-----------------------------------------------------------------------------
(* Properties of the transform composer, under SpecTransform.  Points have *)
(* whole coordinates; their images are in thousandths.                     *)

TestPoints ==
    { <<1, 0, 0>>, <<0, 1, 0>>, <<0, 0, 1>>, <<0, 0, 0>>, <<1, 2, 3>> }

\* the image of point p under the 4x4 matrix M (w = 1)
ApplyMatrix(M, p) ==
    << M[1][1] * p[1] + M[1][2] * p[2] + M[1][3] * p[3] + M[1][4],
       M[2][1] * p[1] + M[2][2] * p[2] + M[2][3] * p[3] + M[2][4],
       M[3][1] * p[1] + M[3][2] * p[2] + M[3][3] * p[3] + M[3][4] >>

\* cos and sin of a multiple of 90 degrees, as whole numbers
CosRight(degrees) ==
    CASE degrees = 0 -> 1
      [] degrees = 180 -> -1
      [] OTHER -> 0

SinRight(degrees) ==
    CASE degrees = 90 -> 1
      [] degrees = -90 -> -1
      [] OTHER -> 0

\* the five steps applied to a point one after the other, by hand
Scaled(scaleXYZ, p) ==
    << scaleXYZ[1] * p[1], scaleXYZ[2] * p[2], scaleXYZ[3] * p[3] >>

TurnedAboutX(degrees, q) ==
    << q[1],
       CosRight(degrees) * q[2] - SinRight(degrees) * q[3],
       SinRight(degrees) * q[2] + CosRight(degrees) * q[3] >>

TurnedAboutY(degrees, q) ==
    << CosRight(degrees) * q[1] + SinRight(degrees) * q[3],
       q[2],
       CosRight(degrees) * q[3] - SinRight(degrees) * q[1] >>

TurnedAboutZ(degrees, q) ==
    << CosRight(degrees) * q[1] - SinRight(degrees) * q[2],
       SinRight(degrees) * q[1] + CosRight(degrees) * q[2],
       q[3] >>

Moved(positionXYZ, q) ==
    << q[1] + positionXYZ[1], q[2] + positionXYZ[2], q[3] + positionXYZ[3] >>

ScaleThenXYZThenMove(in, p) ==
    Moved(in.positionXYZ,
        TurnedAboutZ(in.ZrotationDegrees,
            TurnedAboutY(in.YrotationDegrees,
                TurnedAboutX(in.XrotationDegrees,
                    Scaled(in.scaleXYZ, p)))))

ScaleOnlyExample ==
    [scaleXYZ |-> <<2000, 1000, 1000>>, XrotationDegrees |-> 0,
     YrotationDegrees |-> 0, ZrotationDegrees |-> 0,
     positionXYZ |-> <<0, 0, 0>>]

ScaleTurnMoveExample ==
    [scaleXYZ |-> <<2000, 1000, 1000>>, XrotationDegrees |-> 0,
     YrotationDegrees |-> 90, ZrotationDegrees |-> 0,
     positionXYZ |-> <<0, 5000, 0>>]

\* C16: SetTransformations, a shader manager being present, makes one call,
\* setting "model" to a matrix that maps every point the way scaling it,
\* turning it about X, then Y, then Z, and translating it does; scale
\* (2,1,1) alone maps (1,0,0) to (2,0,0), and with a 90 degree Y rotation and
\* translation (0,5,0) it maps (1,0,0) to (0,5,-2).
C16_ModelIsTRzRyRxS ==
    [][ ( lastOp' = "SetTransformations" /\ m_pShaderManager # "NULL" )
        => /\ Len(lastCalls') = 1
           /\ lastCalls'[1] = << "model", uniforms'["model"] >>
           /\ \A p \in TestPoints :
                 ApplyMatrix(uniforms'["model"], p)
                    = ScaleThenXYZThenMove(lastIn', p)
           /\ lastIn' = ScaleOnlyExample
                 => ApplyMatrix(uniforms'["model"], <<1, 0, 0>>)
                       = <<2000, 0, 0>>
           /\ lastIn' = ScaleTurnMoveExample
                 => ApplyMatrix(uniforms'["model"], <<1, 0, 0>>)
                       = <<0, 5000, -2000>> ]_vars

\* a scale of (2,3,4), three quarter turns and a translation were composed
C16_Witness ==
    /\ lastOp = "SetTransformations"
    /\ m_pShaderManager = "sink"
    /\ lastIn.scaleXYZ = <<2000, 3000, 4000>>
    /\ lastIn.XrotationDegrees = 90
    /\ lastIn.YrotationDegrees = -90
    /\ lastIn.ZrotationDegrees = 180
    /\ lastIn.positionXYZ = <<1000, -2000, 3000>>
    /\ uniforms["model"] # ZeroMatrix

-----------------------------------------------------------------------------------------------------------------------------------------------------
(* PrepareScene under every outcome of the nine files.  What stbi_load     *)
(* makes of each file is fixed through a run: any set of the files fails,  *)
(* all for want of the file or all for the channel count.                  *)

FileOutcomes ==
    { [f \in SceneFiles |-> IF f \in failing THEN image ELSE RGBImage] :
         failing \in SUBSET SceneFiles, image \in {MissingFile, GrayImage} }

InitPrepare ==
    /\ \E pShaderManager \in ShaderManagers : Constructor(pShaderManager)
    /\ env \in { [files |-> files] : files \in FileOutcomes }

NextPrepare ==
    \/ PrepareScene
    \/ BindGLTextures

SpecPrepare == InitPrepare /\ [][NextPrepare]_vars

-----------------------------------------------------------------------------
(* The scene driven by any caller.  The files all load, or the table's is  *)
(* missing.  Every caller prepares, binds and renders; besides, a caller   *)
(* uses one more operation of the class.                                   *)

AllFilesLoad == [f \in SceneFiles |-> RGBImage]

TableFileMissing ==
    [AllFilesLoad EXCEPT !["textures/wood-seamless.jpg"] = MissingFile]

Callers ==
    {"none", "FindTextureID", "FindTextureSlot", "FindMaterial",
     "SetShaderColor", "SetShaderTexture", "SetTextureUVScale",
     "SetTransformations", "SetShaderMaterial"}

SceneEnvironments ==
    { [files |-> files, caller |-> caller] :
         files \in {AllFilesLoad, TableFileMissing}, caller \in Callers }

InitScene ==
    /\ \E pShaderManager \in ShaderManagers : Constructor(pShaderManager)
    /\ env \in SceneEnvironments

NextScene ==
    \/ PrepareScene
    \/ RenderScene
    \/ BindGLTextures
    \/ /\ env.caller = "FindTextureID"
       /\ \E tag \in {"table", "/0"} : FindTextureIDCall(tag)
    \/ /\ env.caller = "FindTextureSlot"
       /\ \E tag \in {"table", "/0"} : FindTextureSlotCall(tag)
    \/ /\ env.caller = "FindMaterial"
       /\ \E material \in UninitMaterials : FindMaterialCall("twine", material)
    \/ /\ env.caller = "SetShaderColor"
       /\ SetShaderColor(200, 0, 0, 500)
    \/ /\ env.caller = "SetShaderTexture"
       /\ SetShaderTexture("table")
    \/ /\ env.caller = "SetTextureUVScale"
       /\ SetTextureUVScale(5000, 5000)
    \/ /\ env.caller = "SetTransformations"
       /\ SetTransformations(<<2000, 1000, 1000>>, 0, 90, 0, <<0, 5000, 0>>)
    \/ /\ env.caller = "SetShaderMaterial"
       /\ SetShaderMaterial("twine")

SpecScene == InitScene /\ [][NextScene]_vars

-----------------------------------------------------------------------------
(* Properties of PrepareScene, under SpecPrepare *)

\* the tags of the occupied slots of the array, in slot order
TagsInSlotOrder(ids, n) == [i \in 1 .. n |-> ids[i - 1].tag]

\* C11: a PrepareScene called after a PrepareScene that completed leaves the
\* number of registered textures, the tag of every slot, the unit every tag
\* resolves to and the material list as they were.
C11_PrepareIdempotent ==
    [][ ( lastOp' = "PrepareScene" /\ m_basicMeshes = PreparedMeshes )
        => /\ m_loadedTextures' = m_loadedTextures
           /\ TagsInSlotOrder(m_textureIDs', m_loadedTextures')
                 = TagsInSlotOrder(m_textureIDs, m_loadedTextures)
           /\ \A tag \in SceneTextureTags :
                 FirstIndexOf(m_textureIDs', m_loadedTextures', tag)
                    = FirstIndexOf(m_textureIDs, m_loadedTextures, tag)
           /\ m_objectMaterials' = m_objectMaterials ]_vars

\* the load whose file stbi_load decodes into an image of 3 or 4 channels
FileLoads(load) == Loadable(env.files[load.file])

FileDecodes(load) == env.files[load.file].decoded

\* C19: PrepareScene on a newly constructed object with a shader manager,
\* whichever of the nine files fail to load: the process lives on; every
\* file that can be decoded has been decoded; the tags of the files that
\* loaded, and no others, fill slots 0, 1, ... in the order of the loads;
\* the tag of every file that failed resolves to -1; each registered texture
\* is bound to the unit of its slot; the seven materials, the lights and the
\* six meshes are in place.
C19_LoadFailureNotFatal ==
    [][ ( /\ lastOp = "SceneManager"
          /\ lastOp' = "PrepareScene"
          /\ m_pShaderManager # "NULL" )
        => LET loaded == SelectSeq(SceneTextureLoads, FileLoads)
               decoded == SelectSeq(SceneTextureLoads, FileDecodes)
           IN  /\ alive' = "alive"
               /\ glNextName' = glNextName + Len(decoded)
               /\ m_loadedTextures' = Len(loaded)
               /\ \A i \in 1 .. Len(loaded) :
                     m_textureIDs'[i - 1].tag = loaded[i].tag
               /\ \A k \in 1 .. Len(SceneTextureLoads) :
                     ~FileLoads(SceneTextureLoads[k])
                        => FirstIndexOf(m_textureIDs', m_loadedTextures',
                                        SceneTextureLoads[k].tag) = NotFound
               /\ \A u \in 0 .. (Len(loaded) - 1) :
                     glBound'[u] = m_textureIDs'[u].ID
               /\ m_objectMaterials' = SceneMaterials
               /\ lastCalls' = LightCalls
               /\ m_basicMeshes' = PreparedMeshes ]_vars

\* the scene was prepared with the images of the cork and of the table
\* rejected for their channel count: seven textures, and all the rest
C19_Witness ==
    /\ lastOp = "PrepareScene"
    /\ m_pShaderManager = "sink"
    /\ alive = "alive"
    /\ stbLiveImages = 2
    /\ m_loadedTextures = 7
    /\ m_textureIDs[0].tag = "draught-potion"
    /\ m_textureIDs[2].tag = "brown-twine"
    /\ Len(m_objectMaterials) = 7
    /\ m_basicMeshes = PreparedMeshes

-----------------------------------------------------------------------------
(* Properties of the scene, under SpecScene *)

\* C17: a RenderScene that follows a RenderScene issues the same draws, each
\* with the same model matrix, shading mode and other uniforms, and sends
\* the same calls to the shader manager.
C17_RenderSceneDeterministic ==
    [][ ( lastOp = "RenderScene" /\ lastOp' = "RenderScene" )
        => /\ frameLog' = frameLog
           /\ lastCalls' = lastCalls ]_vars

\* a frame of the prepared scene was rendered; the next starts from the
\* uniforms this one left
C17_Witness ==
    /\ lastOp = "RenderScene"
    /\ m_loadedTextures = 9
    /\ Len(m_objectMaterials) = 7
    /\ Len(frameLog) = 44
    /\ frameLog[1].mesh = "Plane"
    /\ frameLog[1].uniforms["bUseTexture"] = 1
    /\ frameLog[1].uniforms["objectTexture"] = 5
    /\ uniforms["objectColor"] # frameLog[1].uniforms["objectColor"]

ReadOnlyOperations ==
    {"RenderScene", "FindTextureID", "FindTextureSlot", "FindMaterial",
     "BindGLTextures", "SetShaderColor", "SetShaderTexture",
     "SetTextureUVScale", "SetTransformations", "SetShaderMaterial"}

\* C18: RenderScene, the lookups, BindGLTextures and the shading operations
\* leave m_loadedTextures, every slot of the array and the material list
\* unchanged, after PrepareScene as before it.
C18_RegistryReadOnly ==
    [][ lastOp' \in ReadOnlyOperations
        => /\ m_loadedTextures' = m_loadedTextures
           /\ m_textureIDs' = m_textureIDs
           /\ m_adjacent' = m_adjacent
           /\ m_objectMaterials' = m_objectMaterials ]_vars

\* the scene was prepared, a frame rendered and the textures bound again
C18_Witness ==
    /\ lastOp = "BindGLTextures"
    /\ m_basicMeshes = PreparedMeshes
    /\ m_loadedTextures = 8
    /\ Len(m_objectMaterials) = 7
    /\ Len(frameLog) = 44

\* the Render functions in the order RenderScene calls them, with the number
\* of draws each issues
RenderOrder ==
    << <<"RenderBackground", 1>>, <<"RenderTable", 1>>,
       <<"RenderDraughtLivingDeath", 10>>, <<"RenderAmortentia", 9>>,
       <<"RenderThunderbrew", 9>>, <<"RenderFelix", 10>>,
       <<"RenderFlooPowder", 4>> >>

\* the function issuing the d-th draw of a frame in that order, from the
\* k-th function on
RECURSIVE ObjectOfDraw(_, _)
ObjectOfDraw(d, k) ==
    IF d <= RenderOrder[k][2]
    THEN RenderOrder[k][1]
    ELSE ObjectOfDraw(d - RenderOrder[k][2], k + 1)

OperationsOf(instruction) ==
    [i \in 1 .. Len(instruction) |-> instruction[i][1]]

ModeOperations == {"SetShaderColor", "SetShaderTexture", "SetTextureUVScale"}

\* SetTransformations, then the shading mode, then SetShaderMaterial
WellOrdered(ops) ==
    /\ Len(ops) >= 3
    /\ ops[1] = "SetTransformations"
    /\ ops[Len(ops)] = "SetShaderMaterial"
    /\ \A i \in 2 .. (Len(ops) - 1) : ops[i] \in ModeOperations
    /\ \E i \in 2 .. (Len(ops) - 1) :
          ops[i] \in {"SetShaderColor", "SetShaderTexture"}

\* C21: a frame that RenderScene completed holds 44 draws, issued by the
\* background, the table, Draught of Living Death, Amortentia, Thunderbrew,
\* Felix and Floo Powder in this order, and the calls leading to each draw
\* are SetTransformations, then SetShaderColor and/or SetShaderTexture (with
\* SetTextureUVScale), then SetShaderMaterial.
C21_FixedInstructionOrder ==
    (lastOp = "RenderScene" /\ alive = "alive")
        => /\ Len(frameLog) = 44
           /\ \A d \in 1 .. Len(frameLog) :
                 /\ frameLog[d].object = ObjectOfDraw(d, 1)
                 /\ WellOrdered(OperationsOf(frameLog[d].instruction))

\* a frame ended with the four draws of the Floo Powder, the first draw
\* having been the background's with colour and texture both set
C21_Witness ==
    /\ lastOp = "RenderScene"
    /\ alive = "alive"
    /\ Len(frameLog) = 44
    /\ frameLog[44].object = "RenderFlooPowder"
    /\ frameLog[42].mesh = "HalfSphere"
    /\ OperationsOf(frameLog[1].instruction) =
          <<"SetTransformations", "SetShaderColor", "SetShaderTexture",
            "SetTextureUVScale", "SetShaderMaterial">>

\* C22: in a frame rendered after PrepareScene completed, every draw is of a
\* mesh that PrepareScene loaded.
C22_DrawnMeshesLoaded ==
    ( /\ lastOp = "RenderScene"
      /\ alive = "alive"
      /\ PreparedMeshes \subseteq m_basicMeshes )
        => \A d \in 1 .. Len(frameLog) : frameLog[d].loaded

\* the texture tags passed to SetShaderTexture on the way to a draw
TextureTagsOf(instruction) ==
    { instruction[i][2] :
         i \in { j \in 1 .. Len(instruction) :
                    instruction[j][1] = "SetShaderTexture" } }

\* C23: in a frame rendered after a PrepareScene whose nine loads all
\* succeeded, every tag passed to SetShaderTexture is registered and resolves
\* to a unit in 0..8, and every draw is issued with a sampler unit in 0..8,
\* none with -1.
C23_AllTexturesResolve ==
    ( /\ lastOp = "RenderScene"
      /\ alive = "alive"
      /\ env.files = AllFilesLoad
      /\ PreparedMeshes \subseteq m_basicMeshes )
        => \A d \in 1 .. Len(frameLog) :
              /\ frameLog[d].uniforms["objectTexture"] \in 0 .. 8
              /\ \A tag \in TextureTagsOf(frameLog[d].instruction) :
                    /\ tag \in RegisteredTags
                    /\ FindTextureSlot(tag) \in 0 .. 8

\* the prepared scene was rendered with all nine textures in place: the
\* table drawn with unit 3, the cork of Felix with unit 0
C23_Witness ==
    /\ lastOp = "RenderScene"
    /\ env.files = AllFilesLoad
    /\ m_loadedTextures = 9
    /\ Len(frameLog) = 44
    /\ frameLog[2].uniforms["objectTexture"] = 3
    /\ TextureTagsOf(frameLog[35].instruction) = {"bottle-cork"}
    /\ frameLog[35].uniforms["objectTexture"] = 0

\* the material tags passed to SetShaderMaterial on the way to a draw
MaterialTagsOf(instruction) ==
    { instruction[i][2] :
         i \in { j \in 1 .. Len(instruction) :
                    instruction[j][1] = "SetShaderMaterial" } }

\* C24: in a frame rendered after PrepareScene completed, the calls leading
\* to each of the 44 draws pass one material tag to SetShaderMaterial, a tag
\* of the seven the scene uses; the tag is defined in the material list, and
\* the draw is issued with the diffuse colour, specular colour and shininess
\* defined for it.
C24_OwnMaterialAtEveryDraw ==
    ( /\ lastOp = "RenderScene"
      /\ alive = "alive"
      /\ PreparedMeshes \subseteq m_basicMeshes )
        => /\ Len(frameLog) = 44
           /\ \A d \in 1 .. Len(frameLog) :
                 \E tag \in {"wall", "wood", "liquid", "glass", "twine",
                             "loveGlow", "felixGlow"} :
                    /\ MaterialTagsOf(frameLog[d].instruction) = {tag}
                    /\ MatchingIndices(tag) # {}
                    /\ frameLog[d].uniforms["material.diffuseColor"]
                          = FirstMatch(tag).diffuseColor
                    /\ frameLog[d].uniforms["material.specularColor"]
                          = FirstMatch(tag).specularColor
                    /\ frameLog[d].uniforms["material.shininess"]
                          = FirstMatch(tag).shininess

\* the glass of the Draught was drawn with the shininess of glass, right
\* after its liquid was drawn with that of the liquid
C24_Witness ==
    /\ lastOp = "RenderScene"
    /\ Len(m_objectMaterials) = 7
    /\ Len(frameLog) = 44
    /\ MaterialTagsOf(frameLog[3].instruction) = {"liquid"}
    /\ frameLog[3].uniforms["material.shininess"] = 500
    /\ MaterialTagsOf(frameLog[4].instruction) = {"glass"}
    /\ frameLog[4].uniforms["material.shininess"] = 98000

\* the positions of the calls of one operation among the calls leading to a
\* draw
PositionsOf(instruction, op) ==
    { j \in 1 .. Len(instruction) : instruction[j][1] = op }

\* C25: in every rendered frame, each SetShaderTexture call on the way to
\* a draw is followed, before that draw, by a SetTextureUVScale call of the
\* same instruction, so that no textured draw is issued with the UV scale an
\* earlier instruction left.
C25_TexturedDrawsSetUVScale ==
    lastOp = "RenderScene"
        => \A d \in 1 .. Len(frameLog) :
              \A i \in PositionsOf(frameLog[d].instruction, "SetShaderTexture") :
                 \E j \in PositionsOf(frameLog[d].instruction, "SetTextureUVScale") :
                    i < j

-----------------------------------------------------------------------------
(* Resources of a load, under Spec *)

\* the texture names held by the registry, the cells past the array included
HeldNames(textureIDs, adjacent, loadedTextures) ==
    {textureIDs[i].ID : i \in {s \in Slots : s < loadedTextures}}
        \cup {adjacent[i].ID : i \in {c \in AdjacentCells : c < loadedTextures}}

\* C26: every CreateGLTexture that returns leaves no decoded image unfreed;
\* the texture name it generated, if any, is registered or deleted when it
\* returns, and once an image was decoded no texture is left bound to the
\* 2D target of the active unit, also when the channel count is unsupported.
C26_LoadAccountsForResources ==
    [][ (lastOp' = "CreateGLTexture" /\ alive' = "alive")
        => (/\ stbLiveImages' = stbLiveImages
            /\ \A name \in glNextName .. (glNextName' - 1) :
                  \/ name \in HeldNames(m_textureIDs', m_adjacent',
                                        m_loadedTextures')
                  \/ name \in Range(glDeleted')
            /\ lastIn'.decoded => glBound'[glActiveUnit'] = 0) ]_vars

-----------------------------------------------------------------------------
(* The first PrepareScene, under SpecPrepare *)

\* C27: the first PrepareScene on a newly constructed object, with or
\* without a shader manager and whichever files fail to load, registers at
\* most 9 textures, all inside the 16-slot array; when all nine files load
\* it registers exactly 9, with the tags bottle-cork, draught-potion,
\* black-twine, table, brown-twine, background, love-potion, lucky-potion
\* and stun-potion in slots 0..8, each resolving to the unit of its slot.
C27_FirstPrepareWithinCapacity ==
    [][ ( lastOp = "SceneManager" /\ lastOp' = "PrepareScene" )
        => /\ m_loadedTextures' <= 9
           /\ m_loadedTextures' <= Capacity
           /\ oobWrites' = {}
           /\ m_adjacent' = m_adjacent
           /\ (\A f \in SceneFiles : Loadable(env.files[f]))
                 => /\ m_loadedTextures' = 9
                    /\ TagsInSlotOrder(m_textureIDs', m_loadedTextures')
                          = << "bottle-cork", "draught-potion", "black-twine",
                               "table", "brown-twine", "background",
                               "love-potion", "lucky-potion", "stun-potion" >>
                    /\ \A u \in 0 .. 8 :
                          FirstIndexOf(m_textureIDs', m_loadedTextures',
                                       m_textureIDs'[u].tag) = u ]_vars

\* the first PrepareScene ran with all nine files loading: nine names
\* generated, the ninth registered as stun-potion and bound to unit 8
C27_Witness ==
    /\ lastOp = "PrepareScene"
    /\ \A f \in SceneFiles : Loadable(env.files[f])
    /\ glNextName = 10
    /\ m_loadedTextures = 9
    /\ m_textureIDs[0].tag = "bottle-cork"
    /\ m_textureIDs[8] = [tag |-> "stun-potion", ID |-> 9]
    /\ glBound[8] = 9

-----------------------------------------------------------------------------
(* The shading operations without a shader manager, under SpecShading *)

ShadingOperations ==
    {"SetTransformations", "SetShaderColor", "SetShaderTexture",
     "SetTextureUVScale", "SetShaderMaterial"}

\* C28: on an object constructed with a null shader manager, each of
\* SetTransformations, SetShaderColor, SetShaderTexture, SetTextureUVScale
\* and SetShaderMaterial returns having made no call on the shader manager
\* and having changed no uniform, also when the material list is non-empty.
C28_NullManagerNoOp ==
    [][ ( m_pShaderManager = "NULL" /\ lastOp' \in ShadingOperations )
        => /\ alive' = "alive"
           /\ lastCalls' = << >>
           /\ uniforms' = uniforms ]_vars

=============================================================================
